---- MODULE Spec2Model ----
(***************************************************************************)
(* A model of the entity-extraction and context-assembly core of the       *)
(* thinking-graph backend:                                                 *)
(*   src/backend/services/enhanced_entity_extractor.py                     *)
(*   src/backend/services/context_service.py                               *)
(*                                                                         *)
(* Strings are sequences of one-character strings, so that len, lower,     *)
(* strip, `in` (substring) and slicing are computed as Python computes     *)
(* them.  Scores are kept in tenths (0.7 is 7): every sum the scoring      *)
(* functions can form compares with the threshold in tenths exactly as it  *)
(* does in binary floating point.  Cosine similarities are in hundredths.  *)
(***************************************************************************)
EXTENDS Integers, Sequences, FiniteSets, TLC

VARIABLES
    \* ---- module state of enhanced_entity_extractor.py
    ADVANCED_NLP_AVAILABLE, \* the module global set by the optional import
    semantic_model,         \* self.semantic_model: "None" or "model"
    embedding,              \* the embedding backend: what encode / cosine do
    \* ---- one call of merge_similar_entities
    existing_entities,      \* the list argument, as it is after the call
    new_entity,             \* the candidate argument
    merge_args,             \* the arguments as they were passed
    merged_name,            \* what the call returned ("NotCalled" before)
    \* ---- one call of _clean_and_deduplicate
    entity_list,            \* the raw matches of one category, in match order
    cleaned,                \* the list the call returned
    \* ---- one call of _calculate_confidence_score
    score_args,             \* [entity, context, category]
    score_result,           \* the value returned, "IndexError", or "NotCalled"
    \* ---- one call of extract_entities_with_confidence
    text,                   \* the text argument (None for an absent text)
    finditer,               \* what re.finditer yields for the text, in order
    clock,                  \* what datetime.now() returns
    result,                 \* the ExtractionResult returned (Pending before)
    previous_result,        \* what an earlier call on the same text returned
    \* ---- one call of get_conversation_context
    graph,                  \* the graph store: what session() and run() do
    user_input,             \* the user_input argument
    ctx_trace,              \* the graph operations issued by the call, in order
    context,                \* the context returned ("NotCalled" before)
    metadata,               \* what get_context_metadata returned for it
    \* ---- one call of _calculate_thought_relevance
    relevance_args,         \* [thought_content, mentioned_entities]
    relevance_result,       \* the score returned (Pending before)
    \* ---- calls running concurrently on the shared instances
    threads,                \* per thread: the call, its position, its locals
    \* ---- CollaborationService (collaboration_service.py)
    request,                \* what the name request of the handlers resolves to
    user_sessions,          \* self.user_sessions: socket_id -> user_id
    active_sessions,        \* self.active_sessions: graph_id -> set of user_ids
    graph_locks,            \* self.graph_locks: node_id -> lock_info
    node_store,             \* the graph store: node_id -> last writer
    last_event,             \* the event handled last, with the state it met
    emitted,                \* the events that handler emitted, in order
    \* ---- MultiAIService (multi_ai_service.py)
    providers,              \* self.providers: the names initialised
    ai_request,             \* the provider argument of the request
    ai_failing,             \* the providers whose API call raises
    ai_calls,               \* the providers called by the request, in order
    ai_result               \* what get_reasoning_response returned or raised

extractorVars == <<ADVANCED_NLP_AVAILABLE, semantic_model, embedding>>
mergeVars == <<existing_entities, new_entity, merge_args, merged_name>>
dedupVars == <<entity_list, cleaned>>
scoreVars == <<score_args, score_result>>
extractVars == <<text, finditer, clock, result, previous_result>>
contextVars == <<graph, user_input, ctx_trace, context, metadata>>
relevanceVars == <<relevance_args, relevance_result>>
threadVars == <<threads>>
collabVars == <<request, user_sessions, active_sessions, graph_locks,
                node_store, last_event, emitted>>
aiVars == <<providers, ai_request, ai_failing, ai_calls, ai_result>>
serviceVars == <<relevanceVars, threadVars, collabVars, aiVars>>
vars == <<extractorVars, mergeVars, dedupVars, scoreVars, extractVars,
          contextVars, serviceVars>>

None == <<"None">>
NotCalled == <<"NotCalled">>

\* what a call left behind: nothing yet, a returned value, or an exception
Pending == [status |-> "NotCalled"]
Returned(v) == [status |-> "returned", value |-> v]
Raised(e) == [status |-> "raised", error |-> e]

-----------------------------------------------------------------------------
(* Python's str operations on sequences of characters.                     *)

UpperLetters == <<"A","B","C","D","E","F","G","H","I","J","K","L","M",
                  "N","O","P","Q","R","S","T","U","V","W","X","Y","Z">>
LowerLetters == <<"a","b","c","d","e","f","g","h","i","j","k","l","m",
                  "n","o","p","q","r","s","t","u","v","w","x","y","z">>
Digits == {"0","1","2","3","4","5","6","7","8","9"}
Whitespace == {" ", "\t", "\n"}

IsUpperChar(c) == \E i \in 1..26 : UpperLetters[i] = c
IsLowerChar(c) == \E i \in 1..26 : LowerLetters[i] = c
IsCased(c) == IsUpperChar(c) \/ IsLowerChar(c)
IsWordChar(c) == IsCased(c) \/ c \in Digits \/ c = "_"

LowerChar(c) ==
    IF IsUpperChar(c)
    THEN LowerLetters[CHOOSE i \in 1..26 : UpperLetters[i] = c]
    ELSE c

\* a lower() that was left out: the string as it is
LowerLeftOut(s) == s

\* str.lower()
Lower(s) == [i \in 1..Len(s) |-> LowerChar(s[i])]

\* str.strip(): leading and trailing whitespace removed
RECURSIVE LStrip(_)
LStrip(s) ==
    IF s # <<>> /\ Head(s) \in Whitespace THEN LStrip(Tail(s)) ELSE s

RECURSIVE RStrip(_)
RStrip(s) ==
    IF s # <<>> /\ s[Len(s)] \in Whitespace
    THEN RStrip(SubSeq(s, 1, Len(s) - 1))
    ELSE s

Strip(s) == RStrip(LStrip(s))

\* a in b, for strings: a occurs in b as a contiguous run
Contains(b, a) ==
    \E i \in 0..(Len(b) - Len(a)) : SubSeq(b, i + 1, i + Len(a)) = a

\* str.isdigit()
IsDigit(s) == s # <<>> /\ \A i \in 1..Len(s) : s[i] \in Digits

\* str.istitle(): at least one cased character, upper-case characters only
\* after uncased ones and lower-case characters only after cased ones
IsTitle(s) ==
    /\ \E i \in 1..Len(s) : IsCased(s[i])
    /\ \A i \in 1..Len(s) :
          LET prevCased == i > 1 /\ IsCased(s[i - 1]) IN
          /\ IsUpperChar(s[i]) => ~prevCased
          /\ IsLowerChar(s[i]) => prevCased

\* len(s.split()): the number of maximal runs of non-whitespace characters
SplitCount(s) ==
    Cardinality({i \in 1..Len(s) :
                    /\ s[i] \notin Whitespace
                    /\ (i = 1 \/ s[i - 1] \in Whitespace)})

\* re.match(r'^[^\w\s]+$', s): punctuation only
OnlyPunctuation(s) ==
    /\ s # <<>>
    /\ \A i \in 1..Len(s) : ~IsWordChar(s[i]) /\ s[i] \notin Whitespace

\* sep.join(words)
RECURSIVE Join(_, _)
Join(sep, words) ==
    IF words = <<>> THEN <<>>
    ELSE IF Len(words) = 1 THEN words[1]
    ELSE words[1] \o sep \o Join(sep, Tail(words))

-----------------------------------------------------------------------------
(* AdvancedEntityExtractor: thresholds, stop words, scoring keywords.      *)

\* self.confidence_threshold = 0.7, in tenths
confidence_threshold == 7
\* self.similarity_threshold = 0.85, in hundredths
similarity_threshold == 85

Categories == {"people", "concepts", "tools", "locations", "temporal_events"}

\* the order in which self.patterns is iterated (dict insertion order)
CategoryOrder == <<"people", "concepts", "tools", "locations", "temporal_events">>

stop_words ==
    { <<"t","h","e">>, <<"a">>, <<"a","n">>, <<"a","n","d">>, <<"o","r">>,
      <<"b","u","t">>, <<"i","n">>, <<"o","n">>, <<"a","t">>, <<"t","o">>,
      <<"f","o","r">>, <<"o","f">>, <<"w","i","t","h">>, <<"b","y">>,
      <<"t","h","i","s">>, <<"t","h","a","t">>, <<"t","h","e","s","e">>,
      <<"t","h","o","s","e">>, <<"i","s">>, <<"a","r","e">>,
      <<"w","a","s">>, <<"w","e","r","e">>, <<"b","e">>,
      <<"b","e","e","n">>, <<"b","e","i","n","g">>, <<"h","a","v","e">>,
      <<"h","a","s">>, <<"h","a","d">>, <<"d","o">>, <<"d","o","e","s">>,
      <<"d","i","d">>, <<"w","i","l","l">>, <<"w","o","u","l","d">>,
      <<"c","o","u","l","d">>, <<"s","h","o","u","l","d">>, <<"m","a","y">>,
      <<"m","i","g","h","t">> }

PeopleCueWords ==
    { <<"s","a","i","d">>, <<"w","r","o","t","e">>,
      <<"t","h","i","n","k","s">>, <<"b","e","l","i","e","v","e","s">>,
      <<"r","e","s","e","a","r","c","h","e","r">>,
      <<"p","r","o","f","e","s","s","o","r">>, <<"d","r",".">> }

PeopleSourceWords ==
    { <<"u","n","i","v","e","r","s","i","t","y">>,
      <<"p","u","b","l","i","s","h","e","d">>, <<"s","t","u","d","y">>,
      <<"r","e","s","e","a","r","c","h">> }

ConceptCueWords ==
    { <<"t","h","e","o","r","y">>, <<"c","o","n","c","e","p","t">>,
      <<"p","r","i","n","c","i","p","l","e">>,
      <<"f","r","a","m","e","w","o","r","k">>,
      <<"a","p","p","r","o","a","c","h">> }

ConceptStudyWords ==
    { <<"u","n","d","e","r","s","t","a","n","d","i","n","g">>,
      <<"l","e","a","r","n","i","n","g">>, <<"s","t","u","d","y">>,
      <<"a","n","a","l","y","s","i","s">> }

ToolCueWords ==
    { <<"u","s","i","n","g">>, <<"w","i","t","h">>,
      <<"l","i","b","r","a","r","y">>,
      <<"f","r","a","m","e","w","o","r","k">>, <<"t","o","o","l">> }

ToolCodeWords ==
    { <<"c","o","d","e">>, <<"p","r","o","g","r","a","m","m","i","n","g">>,
      <<"s","o","f","t","w","a","r","e">>,
      <<"d","e","v","e","l","o","p","m","e","n","t">> }


\* any(word in context_lower for word in words)
AnyWordIn(words, context_lower) == \E w \in words : Contains(context_lower, w)

\* _is_noise
_is_noise(entity) ==
    \/ Lower(entity) \in stop_words
    \/ Len(entity) < 2
    \/ IsDigit(entity)
    \/ OnlyPunctuation(entity)

\* the sum _calculate_confidence_score forms before the clamp, in tenths
RawConfidenceScore(entity, ctx, category) ==
    LET context_lower == Lower(ctx)
        lengthPart == IF Len(entity) < 3 THEN -2
                      ELSE IF Len(entity) > 20 THEN -1 ELSE 0
        upperPart == IF IsUpperChar(entity[1]) THEN 1 ELSE 0
        titlePart == IF IsTitle(entity) THEN 1 ELSE 0
        cuePart ==
            IF category = "people"
            THEN (IF AnyWordIn(PeopleCueWords, context_lower) THEN 2 ELSE 0)
               + (IF AnyWordIn(PeopleSourceWords, context_lower) THEN 1 ELSE 0)
            ELSE IF category = "concepts"
            THEN (IF AnyWordIn(ConceptCueWords, context_lower) THEN 2 ELSE 0)
               + (IF AnyWordIn(ConceptStudyWords, context_lower) THEN 1 ELSE 0)
            ELSE IF category = "tools"
            THEN (IF AnyWordIn(ToolCueWords, context_lower) THEN 2 ELSE 0)
               + (IF AnyWordIn(ToolCodeWords, context_lower) THEN 1 ELSE 0)
            ELSE 0
        stopPart == IF Lower(entity) \in stop_words THEN -5 ELSE 0
        longPart == IF SplitCount(entity) > 5 THEN -2 ELSE 0
    IN  5 + lengthPart + upperPart + titlePart + cuePart + stopPart + longPart

\* min(1.0, score): the clamp without its lower bound
ClampAboveOnly(score) == IF score > 10 THEN 10 ELSE score

\* max(0.0, min(1.0, score))
Clamp(score) ==
    LET capped == IF score > 10 THEN 10 ELSE score
    IN  IF capped < 0 THEN 0 ELSE capped

\* _calculate_confidence_score; entity[0] raises IndexError on an empty entity
_calculate_confidence_score(entity, ctx, category) ==
    IF entity = <<>> THEN Raised("IndexError")
    ELSE Returned(Clamp(RawConfidenceScore(entity, ctx, category)))

\* _calculate_definition_confidence, in tenths
_calculate_definition_confidence(term, definition) ==
    LET IndicatorWords == { <<"r","e","f","e","r","s"," ","t","o">>,
                            <<"m","e","a","n","s">>,
                            <<"d","e","f","i","n","e","d"," ","a","s">>,
                            <<"i","s"," ","a"," ","t","y","p","e"," ","o","f">> }
        termPart == IF SplitCount(term) <= 3 THEN 1 ELSE 0
        titlePart == IF IsTitle(term) THEN 1 ELSE 0
        len20Part == IF Len(definition) > 20 THEN 1 ELSE 0
        len50Part == IF Len(definition) > 50 THEN 1 ELSE 0
        indicatorPart ==
            IF AnyWordIn(IndicatorWords, Lower(definition)) THEN 1 ELSE 0
    IN  Clamp(6 + termPart + titlePart + len20Part + len50Part + indicatorPart)

-----------------------------------------------------------------------------
(* merge_similar_entities and _clean_and_deduplicate.                      *)

\* The first index at which flags holds TRUE (0 when none does): the entry
\* a Python for-loop with an early return stops at.
FirstIndex(flags) ==
    IF \E i \in 1..Len(flags) : flags[i]
    THEN CHOOSE i \in 1..Len(flags) :
            flags[i] /\ \A j \in 1..(i - 1) : ~flags[j]
    ELSE 0

\* cosine_similarity of the two names' embeddings, in hundredths: the
\* backend scores a name against itself 1.0, a pair it holds similar above
\* the threshold and any other pair below it.
Cosine(a, b) ==
    IF a = b THEN 100
    ELSE IF {a, b} \in embedding.similar THEN 90 ELSE 30

\* the semantic tier without its try/except: an exception of the backend
\* leaves the call
SemanticTierUnguarded(existing, new) ==
    IF ADVANCED_NLP_AVAILABLE /\ semantic_model # "None"
    THEN IF embedding.throws THEN <<"Exception">>
         ELSE IF \E i \in 1..Len(existing) :
                    Cosine(new, existing[i]) >= similarity_threshold
         THEN existing[CHOOSE i \in 1..Len(existing) :
                  /\ Cosine(new, existing[i]) >= similarity_threshold
                  /\ \A j \in 1..Len(existing) :
                        Cosine(new, existing[j]) <= Cosine(new, existing[i])
                  /\ \A j \in 1..(i - 1) :
                        Cosine(new, existing[j]) < Cosine(new, existing[i])]
         ELSE None
    ELSE None

\* lines 308-324: the semantic tier.  An exception of encode or of
\* cosine_similarity is caught and logged, and the call falls through to
\* the final return None.
SemanticTier(existing, new) ==
    IF ADVANCED_NLP_AVAILABLE /\ semantic_model # "None"
    THEN IF embedding.throws THEN None
         ELSE LET similarities == [i \in 1..Len(existing) |->
                                       Cosine(new, existing[i])]
                  max_similarity ==
                      CHOOSE m \in {similarities[i] : i \in 1..Len(existing)} :
                          \A i \in 1..Len(existing) : similarities[i] <= m
                  \* np.argmax: the first index of the maximum
                  best_match_idx ==
                      CHOOSE i \in 1..Len(existing) :
                          /\ similarities[i] = max_similarity
                          /\ \A j \in 1..(i - 1) :
                                similarities[j] # max_similarity
              IN  IF max_similarity >= similarity_threshold
                  THEN existing[best_match_idx]
                  ELSE None
    ELSE None

\* the substring tier looking at the first existing entry only
SubstringTierFirstOnly(existing, new) ==
    LET new_lower == Lower(new)
        e == existing[1]
    IN  IF Contains(Lower(e), new_lower) \/ Contains(new_lower, Lower(e))
        THEN (IF Len(new) > Len(e) THEN new ELSE e)
        ELSE None

\* the substring tier always returning the existing entry
SubstringTierKeepsExisting(existing, new) ==
    LET new_lower == Lower(new)
        Related(e) == Contains(Lower(e), new_lower) \/ Contains(new_lower, Lower(e))
        i == FirstIndex([k \in 1..Len(existing) |-> Related(existing[k])])
    IN  IF i = 0 THEN None ELSE existing[i]

\* lines 300-306: the substring tier, on the first entry in either relation
SubstringTier(existing, new) ==
    LET new_lower == Lower(new)
        Related(e) == Contains(Lower(e), new_lower) \/ Contains(new_lower, Lower(e))
        i == FirstIndex([k \in 1..Len(existing) |-> Related(existing[k])])
    IN  IF i = 0 THEN None
        ELSE IF Len(new) > Len(existing[i]) THEN new ELSE existing[i]

\* lines 295-298: the exact tier, on the first entry equal ignoring case
ExactTier(existing, new) ==
    LET Same(e) == Lower(e) = Lower(new)
        i == FirstIndex([k \in 1..Len(existing) |-> Same(existing[k])])
    IN  IF i = 0 THEN None ELSE existing[i]

\* merge_similar_entities (Optional[str]: a name, or None)
merge_similar_entities(existing, new) ==
    IF existing = <<>> \/ new = <<>> THEN None
    ELSE IF ExactTier(existing, new) # None THEN ExactTier(existing, new)
    ELSE IF SubstringTier(existing, new) # None THEN SubstringTier(existing, new)
    ELSE SemanticTier(existing, new)

\* list.sort(key=confidence, reverse=True): stable, so entries of equal
\* confidence keep their order
RECURSIVE SortByConfidence(_)
SortByConfidence(seq) ==
    IF seq = <<>> THEN <<>>
    ELSE LET top == CHOOSE i \in 1..Len(seq) :
                       /\ \A j \in 1..Len(seq) :
                             seq[j].confidence <= seq[i].confidence
                       /\ \A j \in 1..(i - 1) :
                             seq[j].confidence < seq[i].confidence
         IN  <<seq[top]>> \o
             SortByConfidence(SubSeq(seq, 1, top - 1) \o
                              SubSeq(seq, top + 1, Len(seq)))

Names(unique_entities) ==
    [i \in 1..Len(unique_entities) |-> unique_entities[i].name]

\* lines 343-367: the body of the loop over one category's entity_list
DedupStep(st, entity) ==
    LET entity_name == entity.name
        entity_lower == Lower(entity_name)
        merged == merge_similar_entities(Names(st.unique_entities), entity_name)
        NotTheMerged(e) == Lower(e.name) # Lower(merged)
    IN  IF entity_lower \in st.seen_names THEN st
        ELSE IF merged # None /\ merged # <<>>
        THEN IF merged = entity_name
             THEN [unique_entities |->
                       Append(SelectSeq(st.unique_entities, NotTheMerged), entity),
                   seen_names |->
                       (st.seen_names \ {Lower(merged)}) \cup {entity_lower}]
             ELSE st
        ELSE [unique_entities |-> Append(st.unique_entities, entity),
              seen_names |-> st.seen_names \cup {entity_lower}]

RECURSIVE DedupLoop(_, _)
DedupLoop(st, entities) ==
    IF entities = <<>> THEN st
    ELSE DedupLoop(DedupStep(st, Head(entities)), Tail(entities))

\* lines 339-371: one category list of _clean_and_deduplicate
CleanCategory(entities) ==
    SortByConfidence(
        DedupLoop([unique_entities |-> <<>>, seen_names |-> {}],
                  entities).unique_entities)

-----------------------------------------------------------------------------
(* The names the merge and deduplication calls are exercised on.           *)

Name_AI == <<"A","I">>
Name_ai == <<"a","i">>
Name_Ai == <<"A","i">>
Name_AILab == <<"A","I"," ","L","a","b">>
Name_LabAI == <<"L","a","b"," ","A","I">>
Name_Lab == <<"L","a","b">>
Name_ML == <<"M","L">>
Name_ArtificialIntelligence == <<"A","r","t","i","f","i","c","i","a","l"," ","I","n","t","e","l","l","i","g","e","n","c","e">>

\* names as one category's raw matches have them: two or more characters,
\* not noise; some equal ignoring case, some contained in others
DedupNames == {Name_AI, Name_ai, Name_AILab, Name_LabAI, Name_Lab, Name_ML}

MergeNames == DedupNames \cup {Name_Ai, Name_ArtificialIntelligence}

\* the longest existing-names list merge_similar_entities is called on
MaxExisting == 2

\* the longest raw entity_list of one category
MaxRaw == 3

SeqsUpTo(S, n) == UNION {[1..k -> S] : k \in 0..n}

\* the pairs of names the embedding backend may hold similar
SimilarChoices == { {}, {{Name_AI, Name_ML}},
                    {{Name_AI, Name_ArtificialIntelligence}} }

\* lines 18-25 and 50-59: the optional import either fails (flag False, no
\* model) or succeeds; loading the model then either succeeds or fails,
\* which clears the flag again.
ExtractorConfigs ==
    {[available |-> FALSE, model |-> "None",
      embedding |-> [throws |-> FALSE, similar |-> {}]]}
    \cup
    {[available |-> TRUE, model |-> "model",
      embedding |-> [throws |-> t, similar |-> s]] :
        t \in BOOLEAN, s \in SimilarChoices}

InitExtractor ==
    \E c \in ExtractorConfigs :
        /\ ADVANCED_NLP_AVAILABLE = c.available
        /\ semantic_model = c.model
        /\ embedding = c.embedding

SemanticTierAbsent == ~(ADVANCED_NLP_AVAILABLE /\ semantic_model # "None")

MergeIdle ==
    /\ existing_entities = <<>>
    /\ new_entity = <<>>
    /\ merge_args = NotCalled
    /\ merged_name = NotCalled

DedupIdle == entity_list = <<>> /\ cleaned = Pending

ScoreIdle == score_args = Pending /\ score_result = Pending

ExtractIdle ==
    /\ text = None /\ finditer = <<>> /\ clock = 0 /\ result = Pending
    /\ previous_result = Pending

ContextIdle ==
    /\ graph = Pending
    /\ user_input = <<>>
    /\ ctx_trace = <<>>
    /\ context = Pending
    /\ metadata = Pending

RelevanceIdle == relevance_args = Pending /\ relevance_result = Pending

ThreadsIdle == threads = <<>>

CollabIdle ==
    /\ request = "Unbound"
    /\ user_sessions = <<>>
    /\ active_sessions = <<>>
    /\ graph_locks = <<>>
    /\ node_store = <<>>
    /\ last_event = Pending
    /\ emitted = {}

AIIdle ==
    /\ providers = {}
    /\ ai_request = "None"
    /\ ai_failing = {}
    /\ ai_calls = <<>>
    /\ ai_result = Pending

ServicesIdle == RelevanceIdle /\ ThreadsIdle /\ CollabIdle /\ AIIdle

-----------------------------------------------------------------------------
(* SpecMerge: calls of merge_similar_entities.                             *)

InitMerge ==
    /\ InitExtractor
    /\ existing_entities \in SeqsUpTo(MergeNames, MaxExisting)
    /\ new_entity \in MergeNames \cup {<<>>}
    /\ merge_args = NotCalled
    /\ merged_name = NotCalled
    /\ DedupIdle /\ ScoreIdle /\ ExtractIdle /\ ContextIdle /\ ServicesIdle

\* one call: the arguments are read, never assigned
CallMerge ==
    /\ merged_name = NotCalled
    /\ merge_args' = [existing |-> existing_entities, new |-> new_entity]
    /\ merged_name' = merge_similar_entities(existing_entities, new_entity)
    /\ UNCHANGED <<existing_entities, new_entity>>
    /\ UNCHANGED <<extractorVars, dedupVars, scoreVars, extractVars, contextVars>>
    /\ UNCHANGED serviceVars

NextMerge == CallMerge

SpecMerge == InitMerge /\ [][NextMerge]_vars

-----------------------------------------------------------------------------
(* SpecDedup: calls of _clean_and_deduplicate on one category's list.      *)

RawEntities == [name : DedupNames, confidence : {7, 9}]

InitDedup ==
    /\ InitExtractor
    /\ entity_list \in SeqsUpTo(RawEntities, MaxRaw)
    /\ cleaned = Pending
    /\ MergeIdle /\ ScoreIdle /\ ExtractIdle /\ ContextIdle /\ ServicesIdle

CallCleanAndDeduplicate ==
    /\ cleaned.status = "NotCalled"
    /\ cleaned' = Returned(CleanCategory(entity_list))
    /\ UNCHANGED entity_list
    /\ UNCHANGED <<extractorVars, mergeVars, scoreVars, extractVars, contextVars>>
    /\ UNCHANGED serviceVars

NextDedup == CallCleanAndDeduplicate

SpecDedup == InitDedup /\ [][NextDedup]_vars

-----------------------------------------------------------------------------
(* Claims about merge_similar_entities and _clean_and_deduplicate.         *)

\* equality and containment ignoring case, character by character
SameIgnoringCase(a, b) ==
    /\ Len(a) = Len(b)
    /\ \A i \in 1..Len(a) : LowerChar(a[i]) = LowerChar(b[i])

ContainsIgnoringCase(b, a) ==
    \E i \in 0..(Len(b) - Len(a)) :
        SameIgnoringCase(SubSeq(b, i + 1, i + Len(a)), a)

RelatedIgnoringCase(a, b) ==
    ContainsIgnoringCase(a, b) \/ ContainsIgnoringCase(b, a)

\* every reordering of a list
Reorderings(seq) ==
    LET n == Len(seq)
        Bijections == {p \in [1..n -> 1..n] : \A i, j \in 1..n : p[i] = p[j] => i = j}
    IN  {[i \in 1..n |-> seq[p[i]]] : p \in Bijections}

\* C5 (as claimed): after deduplication no category list holds two entries
\* of which one name is a case-insensitive substring of the other.
C5_NoSubstringPairAfterDedup ==
    cleaned.status = "returned" =>
        \A i, j \in 1..Len(cleaned.value) :
            i # j => ~ContainsIgnoringCase(cleaned.value[i].name,
                                           cleaned.value[j].name)

\* C6: after deduplication the names of a category list are pairwise
\* distinct when compared ignoring case.
C6_NamesDistinctIgnoringCase ==
    cleaned.status = "returned" =>
        \A i, j \in 1..Len(cleaned.value) :
            i # j => ~SameIgnoringCase(cleaned.value[i].name,
                                       cleaned.value[j].name)

\* C6 witness: two raw matches that differ only in letter case were
\* deduplicated to exactly one entry.
C6_Witness ==
    /\ cleaned.status = "returned"
    /\ Len(entity_list) = 2
    /\ entity_list[1].name = Name_AI
    /\ entity_list[2].name = Name_ai
    /\ Len(cleaned.value) = 1

MergeCalled == merged_name # NotCalled

\* the entries of the existing list the exact or the substring tier matches
MatchingIndexes(existing, new) ==
    {i \in 1..Len(existing) : RelatedIgnoringCase(existing[i], new)}

\* C7 (as claimed): with the semantic tier absent, every permutation of the
\* existing-names list gives the same value, and no argument is mutated.
C7_OrderIndependent ==
    (MergeCalled /\ SemanticTierAbsent) =>
        /\ existing_entities = merge_args.existing
        /\ new_entity = merge_args.new
        /\ \A p \in Reorderings(merge_args.existing) :
              merge_similar_entities(p, merge_args.new) = merged_name

\* C7 (amended): with the semantic tier absent the call mutates neither
\* argument, whether it returns None is the same for every permutation of
\* the existing-names list, and the value itself is the same for every
\* permutation when at most one existing entry matches the candidate.
C7_PureAndDecisionOrderIndependent ==
    (MergeCalled /\ SemanticTierAbsent) =>
        /\ existing_entities = merge_args.existing
        /\ new_entity = merge_args.new
        /\ \A p \in Reorderings(merge_args.existing) :
              /\ (merge_similar_entities(p, merge_args.new) = None)
                     <=> (merged_name = None)
              /\ Cardinality(MatchingIndexes(merge_args.existing,
                                             merge_args.new)) <= 1
                     => merge_similar_entities(p, merge_args.new) = merged_name

\* C7 witness: a call on a two-entry list whose two orders give two values.
C7_Witness ==
    /\ MergeCalled /\ SemanticTierAbsent
    /\ merge_args.existing = <<Name_AILab, Name_LabAI>>
    /\ merge_args.new = Name_AI
    /\ merged_name = Name_AILab
    /\ merge_similar_entities(<<Name_LabAI, Name_AILab>>, Name_AI) = Name_LabAI

AIPair == {Name_AI, Name_ArtificialIntelligence}

\* C8 (as claimed): given "AI" and "Artificial Intelligence", in either
\* role, the merge returns the longer "Artificial Intelligence".
C8_KeepsArtificialIntelligence ==
    (/\ MergeCalled
     /\ Len(merge_args.existing) = 1
     /\ {merge_args.existing[1], merge_args.new} = AIPair)
        => merged_name = Name_ArtificialIntelligence

\* C8 (amended): neither of "AI" and "Artificial Intelligence" contains the
\* other, so the substring tier does not match them and, with the semantic
\* tier absent, the merge returns None; given two names of which one does
\* contain the other ignoring case (and which differ ignoring case) the
\* merge returns the longer, in either role.
C8_SubstringKeepsLonger ==
    (MergeCalled /\ Len(merge_args.existing) = 1 /\ merge_args.new # <<>>) =>
        LET e == merge_args.existing[1]
            n == merge_args.new
        IN  /\ ({e, n} = AIPair /\ SemanticTierAbsent) => merged_name = None
            /\ (RelatedIgnoringCase(e, n) /\ ~SameIgnoringCase(e, n)) =>
                  merged_name = (IF Len(n) > Len(e) THEN n ELSE e)

\* C8 witness: "AI" is existing, "Artificial Intelligence" the candidate,
\* and the call returned None.
C8_Witness ==
    /\ MergeCalled /\ SemanticTierAbsent
    /\ merge_args.existing = <<Name_AI>>
    /\ merge_args.new = Name_ArtificialIntelligence
    /\ merged_name = None

-----------------------------------------------------------------------------
(* SpecScore: calls of _calculate_confidence_score.                        *)

Text_Empty == <<>>
Text_a == <<"a">>
Text_the == <<"t","h","e">>
Text_Alice == <<"A","l","i","c","e">>
Text_alice == <<"a","l","i","c","e">>
Text_Python == <<"P","y","t","h","o","n">>
Text_LongName == <<"I","n","t","e","r","n","a","t","i","o","n","a","l"," ","B","u","s","i","n","e","s","s">>
Text_SixWords == <<"a"," ","b"," ","c"," ","d"," ","e"," ","f">>
Ctx_Empty == <<>>
Ctx_People == <<"D","r","."," ","A","l","i","c","e"," ","s","a","i","d">>
Ctx_Study == <<"a"," ","s","t","u","d","y"," ","a","t"," ","t","h","e"," ","U","n","i","v","e","r","s","i","t","y">>
Ctx_Concept == <<"t","h","e"," ","t","h","e","o","r","y"," ","o","f"," ","l","e","a","r","n","i","n","g">>
Ctx_Tool == <<"u","s","i","n","g"," ","c","o","d","e"," ","w","i","t","h"," ","P","y","t","h","o","n">>

\* entity texts: empty, one character, a stop word, capitalised and not,
\* longer than 20 characters, more than 5 words
ScoreEntities ==
    {Text_Empty, Text_a, Text_the, Text_Alice, Text_alice, Text_Python,
     Text_LongName, Text_SixWords, Name_AI}

\* contexts with and without the cue words of each category
ScoreContexts == {Ctx_Empty, Ctx_People, Ctx_Study, Ctx_Concept, Ctx_Tool}

InitScore ==
    /\ InitExtractor
    /\ score_args \in [entity : ScoreEntities, context : ScoreContexts,
                       category : Categories]
    /\ score_result = Pending
    /\ MergeIdle /\ DedupIdle /\ ExtractIdle /\ ContextIdle /\ ServicesIdle

CallCalculateConfidenceScore ==
    /\ score_result.status = "NotCalled"
    /\ score_result' = _calculate_confidence_score(
                           score_args.entity, score_args.context,
                           score_args.category)
    /\ UNCHANGED score_args
    /\ UNCHANGED <<extractorVars, mergeVars, dedupVars, extractVars, contextVars>>
    /\ UNCHANGED serviceVars

NextScore == CallCalculateConfidenceScore

SpecScore == InitScore /\ [][NextScore]_vars

\* C10: whatever the entity text, context and category, a value returned by
\* _calculate_confidence_score lies in [0.0, 1.0] (0..10 tenths), whatever
\* the sum of bonuses and penalties before the clamp.
C10_ConfidenceInUnitInterval ==
    score_result.status = "returned" =>
        score_result.value >= 0 /\ score_result.value <= 10

\* C10 witness: the sum before the clamp was negative and 0.0 was returned.
C10_Witness ==
    /\ score_result.status = "returned"
    /\ RawConfidenceScore(score_args.entity, score_args.context,
                          score_args.category) < 0
    /\ score_result.value = 0

-----------------------------------------------------------------------------
(* extract_entities_with_confidence.  What re.finditer yields for the text *)
(* is an input of the call: a match is a span of the text (the captured    *)
(* group, which lies inside the whole match), so every pattern table is    *)
(* covered.  The entity records carry the fields the code reads again      *)
(* (name, confidence, context, position); pattern_matched is written and   *)
(* never read.                                                             *)

Min(a, b) == IF a < b THEN a ELSE b
Max(a, b) == IF a > b THEN a ELSE b

\* text[start:stop] for 0-based start and exclusive stop within the text
Slice(t, start, stop) == SubSeq(t, start + 1, stop)

\* one match of one category's pattern, kept whatever its confidence
CategoryMatchEntityNoThreshold(t, category, m) ==
    LET entity_text == Strip(Slice(t, m.start, m.stop))
        start == Max(0, m.start - 50)
        end == Min(Len(t), m.stop + 50)
        ctx == Strip(Slice(t, start, end))
        confidence == _calculate_confidence_score(entity_text, ctx, category)
    IN  IF Len(entity_text) < 2 \/ _is_noise(entity_text) THEN <<>>
        ELSE <<[name |-> entity_text, confidence |-> confidence.value,
                context |-> ctx, position |-> m.start]>>

\* one match of one category's pattern, kept whatever it is
CategoryMatchEntityUnfiltered(t, category, m) ==
    LET entity_text == Strip(Slice(t, m.start, m.stop))
        start == Max(0, m.start - 50)
        end == Min(Len(t), m.stop + 50)
        ctx == Strip(Slice(t, start, end))
        confidence == _calculate_confidence_score(entity_text, ctx, category)
    IN  IF Len(entity_text) < 2 THEN <<>>
        ELSE <<[name |-> entity_text, confidence |-> confidence.value,
                context |-> ctx, position |-> m.start]>>

\* lines 150-172: one match of one category's pattern; m.start and m.stop
\* are match.start() and match.end()
CategoryMatchEntity(t, category, m) ==
    LET entity_text == Strip(Slice(t, m.start, m.stop))
        start == Max(0, m.start - 50)
        end == Min(Len(t), m.stop + 50)
        ctx == Strip(Slice(t, start, end))
        confidence == _calculate_confidence_score(entity_text, ctx, category)
    IN  IF Len(entity_text) < 2 \/ _is_noise(entity_text) THEN <<>>
        ELSE IF confidence.value >= confidence_threshold
        THEN <<[name |-> entity_text, confidence |-> confidence.value,
                context |-> ctx, position |-> m.start]>>
        ELSE <<>>

\* _extract_category_entities: the matches of the category, in match order
RECURSIVE _extract_category_entities(_, _, _)
_extract_category_entities(t, category, matches) ==
    IF matches = <<>> THEN <<>>
    ELSE (IF Head(matches).kind = category
          THEN CategoryMatchEntity(t, category, Head(matches))
          ELSE <<>>)
         \o _extract_category_entities(t, category, Tail(matches))

EmptyDict == [term \in {} |-> <<>>]

\* definitions[term] = value
DictPut(dict, key, value) ==
    [k \in DOMAIN dict \cup {key} |-> IF k = key THEN value ELSE dict[k]]

\* a definition of exactly ten characters let through
DefinitionStepFromTen(t, definitions, m) ==
    LET term == Strip(Slice(t, m.start, m.stop))
        definition == Strip(Slice(t, m.def_start, m.def_stop))
        confidence == _calculate_definition_confidence(term, definition)
    IN  IF Len(term) > 2 /\ Len(definition) >= 10 /\ ~_is_noise(term)
        THEN IF confidence >= confidence_threshold
             THEN DictPut(definitions, term,
                          [definition |-> definition,
                           confidence |-> confidence,
                           context |-> Slice(t, m.start, m.def_stop)])
             ELSE definitions
        ELSE definitions

\* lines 190-200: one match of a definition pattern; group 1 is the term,
\* group 2 the definition, group 0 runs from the term to the definition
DefinitionStep(t, definitions, m) ==
    LET term == Strip(Slice(t, m.start, m.stop))
        definition == Strip(Slice(t, m.def_start, m.def_stop))
        confidence == _calculate_definition_confidence(term, definition)
    IN  IF Len(term) > 2 /\ Len(definition) > 10 /\ ~_is_noise(term)
        THEN IF confidence >= confidence_threshold
             THEN DictPut(definitions, term,
                          [definition |-> definition,
                           confidence |-> confidence,
                           context |-> Slice(t, m.start, m.def_stop)])
             ELSE definitions
        ELSE definitions

\* _extract_definitions
RECURSIVE DefinitionLoop(_, _, _)
DefinitionLoop(t, definitions, matches) ==
    IF matches = <<>> THEN definitions
    ELSE DefinitionLoop(
             t,
             IF Head(matches).kind = "definitions"
             THEN DefinitionStep(t, definitions, Head(matches))
             ELSE definitions,
             Tail(matches))

_extract_definitions(t, matches) == DefinitionLoop(t, EmptyDict, matches)

\* _clean_and_deduplicate: every category list cleaned, definitions kept
_clean_and_deduplicate(entities) ==
    [people |-> CleanCategory(entities.people),
     concepts |-> CleanCategory(entities.concepts),
     tools |-> CleanCategory(entities.tools),
     locations |-> CleanCategory(entities.locations),
     temporal_events |-> CleanCategory(entities.temporal_events),
     definitions |-> entities.definitions]

RECURSIVE SumConfidence(_)
SumConfidence(seq) ==
    IF seq = <<>> THEN 0 ELSE Head(seq).confidence + SumConfidence(Tail(seq))

RECURSIVE SumDictConfidence(_, _)
SumDictConfidence(dict, keys) ==
    IF keys = {} THEN 0
    ELSE LET k == CHOOSE x \in keys : TRUE
         IN  dict[k].confidence + SumDictConfidence(dict, keys \ {k})

CategoryLists(entities) ==
    <<entities.people, entities.concepts, entities.tools,
      entities.locations, entities.temporal_events>>

\* a count that runs on over the calls made so far
CountIncludingEarlierCalls(entities) ==
    Len(entities.people) + Len(entities.concepts) + Len(entities.tools)
    + Len(entities.locations) + Len(entities.temporal_events)
    + Cardinality(DOMAIN entities.definitions) + clock

\* _count_total_entities
_count_total_entities(entities) ==
    Len(entities.people) + Len(entities.concepts) + Len(entities.tools)
    + Len(entities.locations) + Len(entities.temporal_events)
    + Cardinality(DOMAIN entities.definitions)

\* the mean over the category lists only, definitions left out
OverallConfidenceOfListsOnly(entities) ==
    LET total_entities ==
            Len(entities.people) + Len(entities.concepts) + Len(entities.tools)
            + Len(entities.locations) + Len(entities.temporal_events)
        total_confidence ==
            SumConfidence(entities.people) + SumConfidence(entities.concepts)
            + SumConfidence(entities.tools) + SumConfidence(entities.locations)
            + SumConfidence(entities.temporal_events)
    IN  IF total_entities > 0
        THEN [num |-> total_confidence, den |-> total_entities]
        ELSE [num |-> 0, den |-> 1]

\* _calculate_overall_confidence: total_confidence / total_entities as the
\* fraction num/den of tenths, 0.0 (0/1) when nothing was extracted
_calculate_overall_confidence(entities) ==
    LET total_entities == _count_total_entities(entities)
        total_confidence ==
            SumConfidence(entities.people) + SumConfidence(entities.concepts)
            + SumConfidence(entities.tools) + SumConfidence(entities.locations)
            + SumConfidence(entities.temporal_events)
            + SumDictConfidence(entities.definitions,
                                DOMAIN entities.definitions)
    IN  IF total_entities > 0
        THEN [num |-> total_confidence, den |-> total_entities]
        ELSE [num |-> 0, den |-> 1]

NoEntities ==
    [people |-> <<>>, concepts |-> <<>>, tools |-> <<>>, locations |-> <<>>,
     temporal_events |-> <<>>, definitions |-> EmptyDict]

\* _empty_result
_empty_result(now) ==
    [entities |-> NoEntities,
     overall_confidence |-> [num |-> 0, den |-> 1],
     total_entities |-> 0,
     extraction_timestamp |-> now]

\* the guard without its first half: not text.strip(), for a text that is
\* a string
IsBlankStringOnly(t) == t # None /\ Strip(t) = <<>>

\* line 105: not text or not text.strip()
IsBlank(t) == t = None \/ t = <<>> \/ Strip(t) = <<>>

\* lines 110-138: the extraction of a text that is not blank
ExtractionOf(t, matches, now) ==
    LET raw == [people |-> _extract_category_entities(t, "people", matches),
                     concepts |-> _extract_category_entities(t, "concepts", matches),
                     tools |-> _extract_category_entities(t, "tools", matches),
                     locations |-> _extract_category_entities(t, "locations", matches),
                     temporal_events |->
                         _extract_category_entities(t, "temporal_events", matches),
                     definitions |-> _extract_definitions(t, matches)]
             entities == _clean_and_deduplicate(raw)
         IN  [entities |-> entities,
              overall_confidence |-> _calculate_overall_confidence(entities),
              total_entities |-> _count_total_entities(entities),
              extraction_timestamp |-> now]

\* extract_entities_with_confidence; past the guard, len(text) of line 108
\* raises TypeError on a text that is None
extract_entities_with_confidence(t, matches, now) ==
    IF IsBlank(t) THEN Returned(_empty_result(now))
    ELSE IF t = None THEN Raised("TypeError")
    ELSE Returned(ExtractionOf(t, matches, now))

-----------------------------------------------------------------------------
(* SpecExtract: calls of extract_entities_with_confidence.                 *)

Text_Spaces == <<" "," ">>
Text_TabNewline == <<"\t", "\n">>
Text_GitIsProgramming == <<"G","i","t"," ","i","s"," ","p","r","o","g","r","a","m","m","i","n","g">>
Text_SoItNowThenIsProgramming == <<"s","o"," ","i","t"," ","n","o","w"," ","t","h","e","n"," ","i","s"," ","p","r","o","g","r","a","m","m","i","n","g">>
Name_Git == <<"G","i","t">>
Text_GitIsProgrammed == <<"G","i","t"," ","i","s"," ","p","r","o","g","r","a","m","m","e","d">>
Text_GoIsProgramming == <<"G","o"," ","i","s"," ","p","r","o","g","r","a","m","m","i","n","g">>

\* absent, empty and whitespace-only texts, a sentence, a sentence that
\* defines a term of four words, one whose definition has ten characters
\* and one whose term has two
ExtractTexts ==
    {None, Text_Empty, Text_Spaces, Text_TabNewline, Text_GitIsProgramming,
     Text_SoItNowThenIsProgramming, Text_GitIsProgrammed,
     Text_GoIsProgramming}

\* the most matches re.finditer yields for one text, over all patterns
MaxMatches == 2

IsWordStart(t, i) == t[i] \notin Whitespace /\ (i = 1 \/ t[i - 1] \in Whitespace)
IsWordEnd(t, i) == t[i] \notin Whitespace /\ (i = Len(t) \/ t[i + 1] \in Whitespace)

\* the spans of whole words of the text, as 0-based [start, stop)
WordSpans(t) ==
    IF t = None THEN {}
    ELSE {sp \in [start : 0..Len(t), stop : 0..Len(t)] :
             /\ sp.start < sp.stop
             /\ IsWordStart(t, sp.start + 1)
             /\ IsWordEnd(t, sp.stop)}

\* the matches a pattern of a category may yield: a group of whole words
CategoryMatches(t) ==
    {[kind |-> c, start |-> sp.start, stop |-> sp.stop] :
        c \in Categories, sp \in WordSpans(t)}

\* the matches a definition pattern may yield: a term of whole words and,
\* after it, a definition that runs to the end of the text
DefinitionMatches(t) ==
    LET Terms == WordSpans(t)
        Tails == {x \in WordSpans(t) : x.stop = Len(t)}
    IN  {[kind |-> "definitions", start |-> p[1].start, stop |-> p[1].stop,
          def_start |-> p[2].start, def_stop |-> p[2].stop] :
            p \in {q \in Terms \X Tails : q[2].start > q[1].stop}}

\* what the patterns may find in a text: in the short sentence anything; in
\* the long one and in the two at the length limits, definitions whose term
\* starts the sentence
MatchChoices(t) ==
    IF t \in {Text_SoItNowThenIsProgramming, Text_GitIsProgrammed,
              Text_GoIsProgramming}
    THEN {m \in DefinitionMatches(t) : m.start = 0}
    ELSE CategoryMatches(t) \cup DefinitionMatches(t)

\* the backends the extraction is run with
ExtractConfigs ==
    {c \in ExtractorConfigs :
        /\ c.embedding.similar = {}
        /\ c.embedding.throws => c.available}

InitExtract ==
    /\ \E c \in ExtractConfigs :
          /\ ADVANCED_NLP_AVAILABLE = c.available
          /\ semantic_model = c.model
          /\ embedding = c.embedding
    /\ text \in ExtractTexts
    /\ finditer \in SeqsUpTo(MatchChoices(text), MaxMatches)
    /\ clock = 0
    /\ result = Pending
    /\ previous_result = Pending
    /\ MergeIdle /\ DedupIdle /\ ScoreIdle /\ ContextIdle /\ ServicesIdle

CallExtract ==
    /\ result.status = "NotCalled"
    /\ result' = extract_entities_with_confidence(text, finditer, clock)
    /\ clock' = clock + 1
    /\ UNCHANGED <<text, finditer, previous_result>>
    /\ UNCHANGED <<extractorVars, mergeVars, dedupVars, scoreVars, contextVars>>
    /\ UNCHANGED serviceVars

NextExtract == CallExtract

SpecExtract == InitExtract /\ [][NextExtract]_vars

\* a text that is absent, empty or whitespace only
BlankText(t) ==
    t = None \/ \A i \in 1..Len(t) : t[i] \in Whitespace

CategoryListsOf(r) ==
    {r.entities.people, r.entities.concepts, r.entities.tools,
     r.entities.locations, r.entities.temporal_events}

\* C4: for an absent, empty or whitespace-only text the call returns,
\* without raising, a result with every category list empty, no
\* definitions, total_entities 0 and overall_confidence 0.0.
C4_BlankTextGivesEmptyResult ==
    (result.status # "NotCalled" /\ BlankText(text)) =>
        /\ result.status = "returned"
        /\ CategoryListsOf(result.value) = {<<>>}
        /\ DOMAIN result.value.entities.definitions = {}
        /\ result.value.total_entities = 0
        /\ result.value.overall_confidence = [num |-> 0, den |-> 1]

\* C4 witness: the call on the absent text returned the empty result.
C4_Witness ==
    /\ text = None
    /\ result.status = "returned"
    /\ result.value.total_entities = 0

\* the confidences of everything a result holds
ResultConfidences(r) ==
    UNION {{l[i].confidence : i \in 1..Len(l)} : l \in CategoryListsOf(r)}
    \cup {r.entities.definitions[k].confidence :
             k \in DOMAIN r.entities.definitions}

\* C9: every entity of every category list and every definition of a
\* result has confidence >= 0.7 (7 tenths).
C9_ConfidenceAtLeastThreshold ==
    result.status = "returned" =>
        \A c \in ResultConfidences(result.value) : c >= 7

\* the candidates among the matches that score below the threshold
LowScoringCandidates ==
    {i \in 1..Len(finditer) :
        LET m == finditer[i]
            name == Strip(Slice(text, m.start, m.stop))
        IN  /\ m.kind \in Categories
            /\ Len(name) >= 2 /\ ~_is_noise(name)
            /\ _calculate_confidence_score(name, Strip(text), m.kind).value < 7}

\* C9 witness: of two candidates one scored below the threshold and was
\* dropped, the other reached the output.
C9_Witness ==
    /\ result.status = "returned"
    /\ LowScoringCandidates # {}
    /\ result.value.total_entities = 1

-----------------------------------------------------------------------------
(* ContextService: the entities mentioned in the user input.               *)

\* self.context_window, self.max_context_entities, self.max_related_thoughts
context_window == 5
max_context_entities == 10
max_related_thoughts == 5

\* the alternatives of the technical-term pattern of line 71
technical_terms ==
    { <<"A","I">>, <<"M","L">>, <<"A","P","I">>, <<"G","P","U">>,
      <<"C","P","U">>, <<"H","T","T","P">>, <<"J","S","O","N">>,
      <<"X","M","L">>, <<"S","Q","L">>, <<"N","o","S","Q","L">> }

HasKey(record, key) == key \in DOMAIN record

\* lines 57-58: entities.extend([entity['text'] for entity in entity_list])
\* for each category list in turn; the first entity without a 'text' key
\* raises KeyError, which line 59 catches, and the loop is left with what
\* was extended so far.  The definitions dict comes last: iterating it
\* yields its keys, strings, and entity['text'] on a string raises too.
RECURSIVE ExtendWithTexts(_, _)
ExtendWithTexts(entities, lists) ==
    IF lists = <<>> THEN entities
    ELSE LET category_list == Head(lists)
         IN  IF \E i \in DOMAIN category_list : ~HasKey(category_list[i], "text")
             THEN entities
             ELSE ExtendWithTexts(
                      entities \o [i \in 1..Len(category_list) |->
                                       category_list[i].text],
                      Tail(lists))

\* lines 55-60, Method 1: what the advanced extractor contributes
AdvancedCandidates(extracted) ==
    IF extracted.status = "returned"
    THEN ExtendWithTexts(<<>>, CategoryLists(extracted.value.entities))
    ELSE <<>>

\* the last index of the run of lower-case letters that holds index i
RECURSIVE LowerRunEnd(_, _)
LowerRunEnd(t, i) ==
    IF i < Len(t) /\ IsLowerChar(t[i + 1]) THEN LowerRunEnd(t, i + 1) ELSE i

\* [A-Z][a-z]+ at index i: the index of its last character, 0 for no match
CapWordEnd(t, i) ==
    IF i + 1 <= Len(t) /\ IsUpperChar(t[i]) /\ IsLowerChar(t[i + 1])
    THEN LowerRunEnd(t, i + 1)
    ELSE 0

\* the first index from i on that holds no whitespace
RECURSIVE SkipWhitespace(_, _)
SkipWhitespace(t, i) ==
    IF i <= Len(t) /\ t[i] \in Whitespace THEN SkipWhitespace(t, i + 1) ELSE i

\* \b after index j, which holds a word character
BoundaryAfter(t, j) == j = Len(t) \/ ~IsWordChar(t[j + 1])

\* \b before index i, which holds a word character
BoundaryBefore(t, i) == i = 1 \/ ~IsWordChar(t[i - 1])

\* (?:\s+[A-Z][a-z]+)*\b after a capitalized word that ends at j: the
\* longest chain of capitalized words that ends at a word boundary, 0 if
\* there is none
RECURSIVE ChainEnd(_, _)
ChainEnd(t, j) ==
    LET k == SkipWhitespace(t, j + 1)
        e == IF k > j + 1 /\ k <= Len(t) THEN CapWordEnd(t, k) ELSE 0
        further == IF e # 0 THEN ChainEnd(t, e) ELSE 0
    IN  IF further # 0 THEN further
        ELSE IF BoundaryAfter(t, j) THEN j
        ELSE 0

\* line 63, Method 2: re.findall of the capitalized-words pattern from i on
RECURSIVE CapitalizedFrom(_, _)
CapitalizedFrom(t, i) ==
    IF i > Len(t) THEN <<>>
    ELSE LET first == IF BoundaryBefore(t, i) THEN CapWordEnd(t, i) ELSE 0
             e == IF first # 0 THEN ChainEnd(t, first) ELSE 0
         IN  IF e # 0
             THEN <<SubSeq(t, i, e)>> \o CapitalizedFrom(t, e + 1)
             ELSE CapitalizedFrom(t, i + 1)

\* the first index from i on that holds a double quote, 0 if there is none
RECURSIVE NextQuote(_, _)
NextQuote(t, i) ==
    IF i > Len(t) THEN 0
    ELSE IF t[i] = "\"" THEN i
    ELSE NextQuote(t, i + 1)

\* line 67, Method 3: re.findall(r'"([^"]+)"', text) from i on
RECURSIVE QuotedFrom(_, _)
QuotedFrom(t, i) ==
    IF i > Len(t) THEN <<>>
    ELSE LET j == IF t[i] = "\"" THEN NextQuote(t, i + 1) ELSE 0
         IN  IF j > i + 1
             THEN <<SubSeq(t, i + 1, j - 1)>> \o QuotedFrom(t, j + 1)
             ELSE QuotedFrom(t, i + 1)

\* the last index of the run of word characters that holds index i
RECURSIVE WordRunEnd(_, _)
WordRunEnd(t, i) ==
    IF i < Len(t) /\ IsWordChar(t[i + 1]) THEN WordRunEnd(t, i + 1) ELSE i

\* line 71, Method 4: re.findall of the technical-term pattern, ignoring
\* case, from i on: the whole words that are one of the terms
RECURSIVE TechnicalFrom(_, _)
TechnicalFrom(t, i) ==
    IF i > Len(t) THEN <<>>
    ELSE IF IsWordChar(t[i]) /\ BoundaryBefore(t, i)
    THEN LET e == WordRunEnd(t, i)
             word == SubSeq(t, i, e)
         IN  (IF \E term \in technical_terms : Lower(term) = Lower(word)
              THEN <<word>> ELSE <<>>)
             \o TechnicalFrom(t, e + 1)
    ELSE TechnicalFrom(t, i + 1)

\* the loop without its test: every candidate is kept
CleanStepKeepsAll(st, entity) ==
    [cleaned_entities |-> Append(st.cleaned_entities, Strip(entity)),
     seen |-> st.seen \cup {Lower(Strip(entity))}]

\* lines 77-81: one candidate of the clean-and-deduplicate loop
CleanStep(st, entity) ==
    LET entity_clean == Lower(Strip(entity))
    IN  IF Len(entity_clean) > 2 /\ entity_clean \notin st.seen
        THEN [cleaned_entities |-> Append(st.cleaned_entities, Strip(entity)),
              seen |-> st.seen \cup {entity_clean}]
        ELSE st

RECURSIVE CleanLoop(_, _)
CleanLoop(st, entities) ==
    IF entities = <<>> THEN st
    ELSE CleanLoop(CleanStep(st, Head(entities)), Tail(entities))

\* the candidates of the four methods, in the order they are collected
Candidates(t, extracted) ==
    AdvancedCandidates(extracted) \o CapitalizedFrom(t, 1)
    \o QuotedFrom(t, 1) \o TechnicalFrom(t, 1)

\* line 83: cleaned_entities[:self.max_context_entities]
FirstN(seq, n) == SubSeq(seq, 1, Min(Len(seq), n))

\* _extract_entities_from_input; re.findall raises TypeError on a text
\* that is None
_extract_entities_from_input(t, extracted) ==
    IF t = None THEN Raised("TypeError")
    ELSE Returned(FirstN(
             CleanLoop([cleaned_entities |-> <<>>, seen |-> {}],
                       Candidates(t, extracted)).cleaned_entities,
             max_context_entities))

-----------------------------------------------------------------------------
(* ContextService: ranking and formatting what the graph returned.         *)

\* a timestamp property of the store: a date, or None when it is not set
NoTimestamp == [kind |-> "None", at |-> 0]
Timestamp(n) == [kind |-> "datetime", at |-> n]

\* the clamp applied to the base score, before the boost is added
RelevanceClampedFirst(thought_content, mentioned_entities) ==
    IF thought_content = None \/ thought_content = <<>>
       \/ mentioned_entities = <<>>
    THEN [num |-> 0, den |-> 1]
    ELSE LET n == Len(mentioned_entities)
             content_lower == Lower(thought_content)
             matches == Cardinality({i \in 1..n :
                            Contains(content_lower,
                                     Lower(mentioned_entities[i]))})
             exact_matches == Cardinality({i \in 1..n :
                            Contains(thought_content, mentioned_entities[i])})
         IN  [num |-> Min(5 * matches, 5 * n) + n * exact_matches,
              den |-> 5 * n]

\* _calculate_thought_relevance: matches / len(entities) + 0.2 * exact,
\* clamped last, as the fraction num/den over den = 5 * len(entities).
\* (For up to four mentioned entities equal fractions are equal floats.)
_calculate_thought_relevance(thought_content, mentioned_entities) ==
    IF thought_content = None \/ thought_content = <<>>
       \/ mentioned_entities = <<>>
    THEN [num |-> 0, den |-> 1]
    ELSE LET n == Len(mentioned_entities)
             content_lower == Lower(thought_content)
             matches == Cardinality({i \in 1..n :
                            Contains(content_lower,
                                     Lower(mentioned_entities[i]))})
             exact_matches == Cardinality({i \in 1..n :
                            Contains(thought_content, mentioned_entities[i])})
         IN  [num |-> Min(5 * matches + n * exact_matches, 5 * n),
              den |-> 5 * n]

\* lines 191 and 204: content and len(content.strip()) > 10
KeepContent(content) ==
    content # None /\ content # <<>> /\ Len(Strip(content)) > 10

\* lines 193 and 206: content[:200] + '...' if len(content) > 200
Truncated(content) ==
    IF Len(content) > 200
    THEN SubSeq(content, 1, 200) \o <<".", ".", ".">>
    ELSE content

\* lines 192-199: the thought_info of a thought related to an entity
EntityThoughtInfo(thought, mentioned_entities) ==
    [content |-> Truncated(thought.content),
     type |-> thought.type,
     confidence |-> thought.confidence,
     timestamp |-> thought.timestamp,
     session_id |-> thought.session_id,
     relevance_score |->
         _calculate_thought_relevance(thought.content, mentioned_entities)]

\* lines 205-212: the thought_info of a thought of the current session
SessionThoughtInfo(record, mentioned_entities) ==
    [content |-> Truncated(record.content),
     type |-> record.type,
     confidence |-> record.confidence,
     timestamp |-> record.timestamp,
     mentioned_entities |-> record.mentioned_entities,
     relevance_score |->
         _calculate_thought_relevance(record.content, mentioned_entities)]

KeepThought(thought) == KeepContent(thought.content)

\* lines 180-186: the entity_info of one record of the entity query
EntityInfo(record) ==
    LET related == FirstN(record.related_entities, 3)
    IN  [name |-> record.entity_name,
         types |-> record.entity_types,
         definition |-> record.definition,
         mention_count |-> Len(record.related_thoughts),
         related_concepts |-> [i \in 1..Len(related) |-> related[i].name]]

\* lines 190-200: the thoughts one entity record adds, its first two at most
EntityThoughts(record, mentioned_entities) ==
    LET kept == SelectSeq(FirstN(record.related_thoughts, 2), KeepThought)
    IN  [i \in 1..Len(kept) |-> EntityThoughtInfo(kept[i], mentioned_entities)]

RECURSIVE AllEntityThoughts(_, _)
AllEntityThoughts(records, mentioned_entities) ==
    IF records = <<>> THEN <<>>
    ELSE EntityThoughts(Head(records), mentioned_entities)
         \o AllEntityThoughts(Tail(records), mentioned_entities)

\* lines 203-213
SessionThoughts(records, mentioned_entities) ==
    LET kept == SelectSeq(records, KeepThought)
    IN  [i \in 1..Len(kept) |-> SessionThoughtInfo(kept[i], mentioned_entities)]

\* line 216: key(x) < key(y) for the keys (relevance_score, timestamp);
\* tuples are compared at their first unequal position, and ordering None
\* against anything raises TypeError
KeyLess(x, y) ==
    LET a == x.relevance_score
        b == y.relevance_score
    IN  IF a.num * b.den # b.num * a.den
        THEN Returned(a.num * b.den < b.num * a.den)
        ELSE IF x.timestamp = y.timestamp THEN Returned(FALSE)
        ELSE IF x.timestamp.kind = "None" \/ y.timestamp.kind = "None"
        THEN Raised("TypeError")
        ELSE Returned(x.timestamp.at < y.timestamp.at)

RECURSIVE Reverse(_)
Reverse(seq) ==
    IF seq = <<>> THEN <<>> ELSE Append(Reverse(Tail(seq)), Head(seq))

\* list.sort looks for the run the list starts with: a[i] is compared with
\* a[i - 1] until the direction of the first comparison changes
RECURSIVE RunFrom(_, _, _)
RunFrom(a, i, descending) ==
    IF i > Len(a) THEN [raised |-> FALSE, run |-> Len(a)]
    ELSE LET c == KeyLess(a[i], a[i - 1])
         IN  IF c.status = "raised" THEN [raised |-> TRUE, run |-> 0]
             ELSE IF c.value = descending THEN RunFrom(a, i + 1, descending)
             ELSE [raised |-> FALSE, run |-> i - 1]

\* list.sort inserts each later element by binary search: where, among the
\* first r elements and from l on, the pivot belongs
RECURSIVE BinarySearch(_, _, _, _)
BinarySearch(a, pivot, l, r) ==
    IF l >= r THEN [raised |-> FALSE, pos |-> l]
    ELSE LET p == l + ((r - l) \div 2)
             c == KeyLess(pivot, a[p + 1])
         IN  IF c.status = "raised" THEN [raised |-> TRUE, pos |-> 0]
             ELSE IF c.value THEN BinarySearch(a, pivot, l, p)
             ELSE BinarySearch(a, pivot, p + 1, r)

RECURSIVE BinarySort(_, _)
BinarySort(a, start) ==
    IF start >= Len(a) THEN Returned(a)
    ELSE LET pivot == a[start + 1]
             s == BinarySearch(a, pivot, 0, start)
         IN  IF s.raised THEN Raised("TypeError")
             ELSE BinarySort(SubSeq(a, 1, s.pos) \o <<pivot>>
                             \o SubSeq(a, s.pos + 1, start)
                             \o SubSeq(a, start + 2, Len(a)),
                             start + 1)

\* the thoughts left in the order they were collected
Unsorted(related_thoughts) == Returned(related_thoughts)

\* line 216: related_thoughts.sort(key=..., reverse=True), for lists short
\* enough to be sorted by binary insertion: the list is reversed, sorted
\* ascending and stably, and reversed again
SortThoughts(related_thoughts) ==
    IF Len(related_thoughts) < 2 THEN Returned(related_thoughts)
    ELSE LET a == Reverse(related_thoughts)
             first == KeyLess(a[2], a[1])
             found == IF first.status = "raised"
                      THEN [raised |-> TRUE, run |-> 0]
                      ELSE RunFrom(a, 3, first.value)
         IN  IF found.raised THEN Raised("TypeError")
             ELSE LET b == IF first.value
                           THEN Reverse(SubSeq(a, 1, found.run))
                                \o SubSeq(a, found.run + 1, Len(a))
                           ELSE a
                      sorted == BinarySort(b, found.run)
                  IN  IF sorted.status = "raised" THEN sorted
                      ELSE Returned(Reverse(sorted.value))

DigitChars == <<"0", "1", "2", "3", "4", "5", "6", "7", "8", "9">>

\* str(n) for a count
RECURSIVE IntToStr(_)
IntToStr(n) ==
    IF n < 10 THEN <<DigitChars[n + 1]>>
    ELSE IntToStr(n \div 10) \o <<DigitChars[(n % 10) + 1]>>

Str_NoRelevantContext == <<"N","o"," ","r","e","l","e","v","a","n","t"," ","c","o","n","t","e","x","t"," ","f","o","u","n","d"," ","f","r","o","m"," ","p","r","e","v","i","o","u","s"," ","c","o","n","v","e","r","s","a","t","i","o","n","s",".">>
Str_ContextExtractionFailed == <<"C","o","n","t","e","x","t"," ","e","x","t","r","a","c","t","i","o","n"," ","f","a","i","l","e","d">>
Str_PreviouslyDiscussed == <<"P","r","e","v","i","o","u","s","l","y"," ","d","i","s","c","u","s","s","e","d",":"," ">>
Str_RelatedInsightsFound == <<" ","r","e","l","a","t","e","d"," ","i","n","s","i","g","h","t","s"," ","f","o","u","n","d">>
Str_RelatedConversations == <<" ","r","e","l","a","t","e","d"," ","c","o","n","v","e","r","s","a","t","i","o","n","s">>

\* a summary that counts the thoughts the context keeps after its cut
SummaryOfKeptThoughts(entities, thoughts, similar_sessions) ==
    IF entities = <<>> /\ thoughts = <<>> THEN Str_NoRelevantContext
    ELSE LET shown == FirstN(entities, 3)
             entity_names == [i \in 1..Len(shown) |-> shown[i].name]
             kept == FirstN(thoughts, max_related_thoughts)
             summary_parts ==
                 (IF entities # <<>>
                  THEN <<Str_PreviouslyDiscussed
                         \o Join(<<",", " ">>, entity_names)>>
                  ELSE <<>>)
                 \o (IF thoughts # <<>>
                     THEN <<IntToStr(Len(kept)) \o Str_RelatedInsightsFound>>
                     ELSE <<>>)
                 \o (IF similar_sessions # <<>>
                     THEN <<IntToStr(Len(similar_sessions))
                            \o Str_RelatedConversations>>
                     ELSE <<>>)
         IN  Join(<<".", " ">>, summary_parts) \o <<".">>

\* _generate_context_summary
_generate_context_summary(entities, thoughts, similar_sessions) ==
    IF entities = <<>> /\ thoughts = <<>> THEN Str_NoRelevantContext
    ELSE LET shown == FirstN(entities, 3)
             entity_names == [i \in 1..Len(shown) |-> shown[i].name]
             summary_parts ==
                 (IF entities # <<>>
                  THEN <<Str_PreviouslyDiscussed
                         \o Join(<<",", " ">>, entity_names)>>
                  ELSE <<>>)
                 \o (IF thoughts # <<>>
                     THEN <<IntToStr(Len(thoughts)) \o Str_RelatedInsightsFound>>
                     ELSE <<>>)
                 \o (IF similar_sessions # <<>>
                     THEN <<IntToStr(Len(similar_sessions))
                            \o Str_RelatedConversations>>
                     ELSE <<>>)
         IN  Join(<<".", " ">>, summary_parts) \o <<".">>

\* _format_and_rank_context; the sort may raise
_format_and_rank_context(context_data, mentioned_entities) ==
    LET records == context_data.entity_context
        related_entities == [i \in 1..Len(records) |-> EntityInfo(records[i])]
        related_thoughts ==
            SortThoughts(
                AllEntityThoughts(records, mentioned_entities)
                \o SessionThoughts(context_data.session_context,
                                   mentioned_entities))
    IN  IF related_thoughts.status = "raised" THEN related_thoughts
        ELSE Returned(
            [related_entities |-> FirstN(related_entities, max_context_entities),
             related_thoughts |->
                 FirstN(related_thoughts.value, max_related_thoughts),
             similar_sessions |-> FirstN(context_data.similar_sessions, 3),
             context_summary |->
                 _generate_context_summary(related_entities,
                                           related_thoughts.value,
                                           context_data.similar_sessions),
             extracted_entities |-> mentioned_entities])

-----------------------------------------------------------------------------
(* ContextService.get_conversation_context against a graph store.          *)

\* the three run() calls of _query_context_from_graph, in the order issued
QueryOrder == <<"entity_context", "session_context", "similar_sessions">>

\* the run() calls issued were a query that raised run once more
QueriesIssuedWithRetry(g) ==
    IF g.failing_query = 0 THEN QueryOrder
    ELSE SubSeq(QueryOrder, 1, g.failing_query)
         \o <<QueryOrder[g.failing_query]>>

\* lines 116-164: the run() calls issued until one raises
QueriesIssued(g) ==
    SubSeq(QueryOrder, 1, IF g.failing_query = 0 THEN 3 ELSE g.failing_query)

\* _query_context_from_graph: the records of the three results, each cut
\* by the LIMIT of its query, or the error of the run() call that raised
_query_context_from_graph(g) ==
    IF g.failing_query # 0 THEN Raised("ServiceUnavailable")
    ELSE Returned(
             [entity_context |-> FirstN(g.entity_context, max_context_entities),
              session_context |-> FirstN(g.session_context, context_window),
              similar_sessions |-> FirstN(g.similar_sessions, 3)])

\* line 34, were its summary the sentence of _generate_context_summary
EmptyContextWithSentence ==
    [related_entities |-> <<>>, related_thoughts |-> <<>>,
     context_summary |-> Str_NoRelevantContext]

\* line 34
EmptyContext ==
    [related_entities |-> <<>>, related_thoughts |-> <<>>,
     context_summary |-> <<>>]

\* line 48
FailureContext ==
    [related_entities |-> <<>>, related_thoughts |-> <<>>,
     context_summary |-> Str_ContextExtractionFailed]

\* an exception that leaves the call
Propagate(e) == Raised(e)

\* lines 46-48: except Exception
OnException(e) == Returned(FailureContext)

\* a guard that never takes the early return
NeverEmpty(mentioned_entities) == FALSE

\* line 33: not mentioned_entities
NoneMentioned(mentioned_entities) == mentioned_entities = <<>>

\* get_conversation_context: the value the call returns and the graph
\* operations it issues; the with statement of line 37 closes the session
\* whether or not a query raised
get_conversation_context(u, extracted, g) ==
    LET mentioned_entities == _extract_entities_from_input(u, extracted)
    IN  IF mentioned_entities.status = "raised"
        THEN [context |-> OnException(mentioned_entities.error),
              trace |-> <<>>]
        ELSE IF NoneMentioned(mentioned_entities.value)
        THEN [context |-> Returned(EmptyContext), trace |-> <<>>]
        ELSE IF g.session_raises
        THEN [context |-> OnException("ServiceUnavailable"),
              trace |-> <<"session">>]
        ELSE LET context_data == _query_context_from_graph(g)
                 trace == <<"session">> \o QueriesIssued(g) \o <<"close">>
             IN  IF context_data.status = "raised"
                 THEN [context |-> OnException(context_data.error),
                       trace |-> trace]
                 ELSE LET formatted_context ==
                              _format_and_rank_context(
                                  context_data.value, mentioned_entities.value)
                      IN  IF formatted_context.status = "raised"
                          THEN [context |->
                                    OnException(formatted_context.error),
                                trace |-> trace]
                          ELSE [context |-> formatted_context,
                                trace |-> trace]

\* context.get(key, default)
Get(record, key, default) == IF HasKey(record, key) THEN record[key] ELSE default

\* used_context with `and` in the place of `or`
MetadataUsedOnlyWithBoth(c) ==
    [metadata |->
        [context_entities_count |-> Len(Get(c, "related_entities", <<>>)),
         context_thoughts_count |-> Len(Get(c, "related_thoughts", <<>>)),
         similar_sessions_count |-> Len(Get(c, "similar_sessions", <<>>)),
         extracted_entities |-> Get(c, "extracted_entities", <<>>),
         context_summary |-> Get(c, "context_summary", <<>>),
         used_context |-> Len(Get(c, "related_entities", <<>>)) > 0
                          /\ Len(Get(c, "related_thoughts", <<>>)) > 0],
     context |-> c]

\* get_context_metadata: the metadata returned, and the context as the call
\* leaves it; bool(a or b) is true when one of the two is a non-empty list
\* (a missing field reads as None, which is as false as the empty list)
get_context_metadata(c) ==
    [metadata |->
        [context_entities_count |-> Len(Get(c, "related_entities", <<>>)),
         context_thoughts_count |-> Len(Get(c, "related_thoughts", <<>>)),
         similar_sessions_count |-> Len(Get(c, "similar_sessions", <<>>)),
         extracted_entities |-> Get(c, "extracted_entities", <<>>),
         context_summary |-> Get(c, "context_summary", <<>>),
         used_context |-> Len(Get(c, "related_entities", <<>>)) > 0
                          \/ Len(Get(c, "related_thoughts", <<>>)) > 0],
     context |-> c]

-----------------------------------------------------------------------------
(* SpecContext: calls of get_conversation_context.                         *)

Text_it == <<"i","t">>
Text_GitAPI == <<"G","i","t"," ","A","P","I">>
Text_QuotedGitGit == <<"\"","g","i","t","\""," ","G","i","t">>
Text_SingleQuoted == <<"'","g","i","t"," ","h","u","b","'">>
Text_UsingPython == <<"u","s","i","n","g"," ","p","y","t","h","o","n">>
Text_ElevenTerms == <<"G","i","t",",","H","u","b",",","L","a","b",",","A","P","I",",","G","P","U",",","C","P","U",",","X","M","L",",","S","Q","L",",","H","T","T","P",",","J","S","O","N",",","N","o","S","Q","L">>
Name_API == <<"A","P","I">>
Content_GitExact == <<"G","i","t"," ","i","s"," ","a"," ","t","o","o","l">>
Content_GitLower == <<"g","i","t"," ","i","s"," ","a"," ","t","o","o","l">>
Content_Unrelated == <<"n","o","t","h","i","n","g"," ","h","e","r","e","!">>
Content_GitAPI == <<"G","i","t"," ","h","a","s"," ","a","n"," ","A","P","I">>

\* absent, empty and whitespace-only inputs; inputs that mention nothing
\* (a short word, a two-letter acronym, a single-quoted term, a tool in
\* lower case); inputs that mention one entity, two, or more than the cap
ContextInputs ==
    {None, Text_Empty, Text_Spaces, Text_TabNewline, Text_it, Name_AI,
     Text_SingleQuoted, Text_UsingPython, Name_Git, Text_GitAPI,
     Text_QuotedGitGit, Text_ElevenTerms}

\* the most matches re.finditer yields for the user input, over all the
\* patterns of the extractor
MaxInputMatches == 1

StoredThought(content, timestamp) ==
    [content |-> content, type |-> "analysis", confidence |-> 8,
     timestamp |-> timestamp, session_id |-> "s2"]

\* what OPTIONAL MATCH collects for an entity no thought mentions
NullThought ==
    [content |-> None, type |-> "None", confidence |-> 0,
     timestamp |-> NoTimestamp, session_id |-> "None"]

SessionRecord(content, timestamp) ==
    [content |-> content, type |-> "analysis", confidence |-> 8,
     timestamp |-> timestamp, mentioned_entities |-> <<Name_Git>>]

EntityRecord(related_thoughts) ==
    [entity_name |-> Name_Git, entity_types |-> <<"Entity", "Tool">>,
     definition |-> None, related_thoughts |-> related_thoughts,
     related_entities |-> <<[name |-> Name_API, type |-> "Entity",
                             relationship |-> "RELATED_TO"]>>]

SimilarSession ==
    [session_id |-> "s3", strategy |-> "deductive", domain |-> "general",
     timestamp |-> Timestamp(1), entity_overlap |-> 1,
     sample_thoughts |-> <<Content_GitExact>>]

GraphContent(entity_context, session_context, similar_sessions) ==
    [entity_context |-> entity_context, session_context |-> session_context,
     similar_sessions |-> similar_sessions]

\* what the store may hold for the input: nothing; an entity with two
\* thoughts; an entity no thought mentions; thoughts of the session and a
\* similar session; two equally relevant thoughts of which one has no
\* timestamp; more thoughts than a context keeps; more entities than the
\* entity query is limited to
GraphContents ==
    {GraphContent(<<>>, <<>>, <<>>),
     GraphContent(<<EntityRecord(<<StoredThought(Content_GitLower, Timestamp(2)),
                                   StoredThought(Content_GitExact, Timestamp(1))>>)>>,
                  <<>>, <<>>),
     GraphContent(<<EntityRecord(<<NullThought>>)>>, <<>>, <<>>),
     GraphContent(<<>>,
                  <<SessionRecord(Content_GitLower, Timestamp(2)),
                    SessionRecord(Content_GitExact, Timestamp(1)),
                    SessionRecord(Name_Git, Timestamp(3))>>,
                  <<SimilarSession>>),
     GraphContent(<<EntityRecord(<<StoredThought(Content_GitExact, Timestamp(1)),
                                   StoredThought(Content_GitExact, NoTimestamp)>>)>>,
                  <<>>, <<>>),
     GraphContent(<<EntityRecord(<<StoredThought(Content_GitAPI, Timestamp(4)),
                                   StoredThought(Content_Unrelated, NoTimestamp)>>)>>,
                  <<SessionRecord(Content_GitExact, Timestamp(5)),
                    SessionRecord(Content_GitLower, Timestamp(3)),
                    SessionRecord(Content_GitAPI, Timestamp(2)),
                    SessionRecord(Content_GitExact, Timestamp(1)),
                    SessionRecord(Content_GitLower, Timestamp(0))>>,
                  <<SimilarSession>>),
     GraphContent([i \in 1..(max_context_entities + 1) |->
                      EntityRecord(<<NullThought>>)],
                  <<>>, <<>>)}

\* the stores a call may meet: one that answers every query, one whose
\* session cannot be opened, one whose first, second or third query raises
GraphStores ==
    {[session_raises |-> s, failing_query |-> q,
      entity_context |-> c.entity_context,
      session_context |-> c.session_context,
      similar_sessions |-> c.similar_sessions] :
        s \in BOOLEAN, q \in 0..3, c \in GraphContents}

InitContext ==
    /\ ADVANCED_NLP_AVAILABLE = FALSE
    /\ semantic_model = "None"
    /\ embedding = [throws |-> FALSE, similar |-> {}]
    /\ user_input \in ContextInputs
    /\ finditer \in SeqsUpTo(MatchChoices(user_input), MaxInputMatches)
    /\ graph \in GraphStores
    /\ text = None
    /\ clock = 0
    /\ result = Pending
    /\ previous_result = Pending
    /\ ctx_trace = <<>>
    /\ context = Pending
    /\ metadata = Pending
    /\ MergeIdle /\ DedupIdle /\ ScoreIdle /\ ServicesIdle

\* one call; result is what the extractor returned to Method 1
CallGetConversationContext ==
    /\ context.status = "NotCalled"
    /\ LET extracted ==
               extract_entities_with_confidence(user_input, finditer, clock)
           call == get_conversation_context(user_input, extracted, graph)
       IN  /\ result' = extracted
           /\ context' = call.context
           /\ ctx_trace' = call.trace
    /\ clock' = clock + 1
    /\ UNCHANGED <<text, finditer, previous_result, graph, user_input, metadata>>
    /\ UNCHANGED <<extractorVars, mergeVars, dedupVars, scoreVars>>
    /\ UNCHANGED serviceVars

\* get_context_metadata called on the context the service returned
CallGetContextMetadata ==
    /\ context.status = "returned"
    /\ metadata.status = "NotCalled"
    /\ LET call == get_context_metadata(context.value)
       IN  /\ metadata' = Returned(call.metadata)
           /\ context' = Returned(call.context)
    /\ UNCHANGED <<text, finditer, clock, result, previous_result>>
    /\ UNCHANGED <<graph, user_input, ctx_trace>>
    /\ UNCHANGED <<extractorVars, mergeVars, dedupVars, scoreVars>>
    /\ UNCHANGED serviceVars

NextContext == CallGetConversationContext \/ CallGetContextMetadata

SpecContext == InitContext /\ [][NextContext]_vars

-----------------------------------------------------------------------------
(* Claims about get_conversation_context.                                  *)

ContextCalled == context.status # "NotCalled"

\* the call opened a session, and opening it or one of the queries raised
GraphOperationRaised ==
    /\ ContextCalled
    /\ ctx_trace # <<>>
    /\ (graph.session_raises \/ graph.failing_query # 0)

\* C1: when opening the graph session or one of the three graph queries
\* raises, the call does not raise: it returns a context whose
\* related_entities and related_thoughts are empty and whose
\* context_summary is a non-empty string.
C1_GraphFailureGivesEmptyContext ==
    GraphOperationRaised =>
        /\ context.status = "returned"
        /\ context.value.related_entities = <<>>
        /\ context.value.related_thoughts = <<>>
        /\ context.value.context_summary # <<>>

\* the second query raised in a store that holds an entity and thoughts
C1_Witness ==
    /\ ContextCalled
    /\ ~graph.session_raises
    /\ graph.failing_query = 2
    /\ graph.entity_context # <<>>
    /\ ctx_trace = <<"session", "entity_context", "session_context", "close">>
    /\ context.status = "returned"
    /\ context.value.context_summary = Str_ContextExtractionFailed

\* the extraction of the entities of the input returned an empty list
NoEntityExtracted ==
    /\ ContextCalled
    /\ _extract_entities_from_input(user_input, result) = Returned(<<>>)

\* C2: when no entity is extracted from the user input, the call returns
\* an empty context (empty lists, empty summary) and neither opens a graph
\* session nor issues a graph query.
C2_NoEntityNoGraphAccess ==
    NoEntityExtracted =>
        /\ context.status = "returned"
        /\ context.value.related_entities = <<>>
        /\ context.value.related_thoughts = <<>>
        /\ context.value.context_summary = <<>>
        /\ ctx_trace = <<>>

\* an input that is not blank and mentions nothing, against a store that
\* answers and holds an entity
C2_Witness ==
    /\ NoEntityExtracted
    /\ user_input = Name_AI
    /\ ~graph.session_raises
    /\ graph.failing_query = 0
    /\ graph.entity_context # <<>>
    /\ ctx_trace = <<>>
    /\ context.status = "returned"

\* the input is the empty string or whitespace only
BlankInput ==
    /\ user_input # None
    /\ \A i \in 1..Len(user_input) : user_input[i] \in Whitespace

\* C3 as stated: for an input that is the empty string or whitespace only
\* the call returns the canonical empty context, whose context_summary is
\* exactly "No relevant context found from previous conversations.".
C3_BlankInputGivesSentence ==
    (ContextCalled /\ BlankInput) =>
        /\ context.status = "returned"
        /\ context.value.related_entities = <<>>
        /\ context.value.related_thoughts = <<>>
        /\ context.value.context_summary = Str_NoRelevantContext

\* C3 as the code has it: for an input that is the empty string or
\* whitespace only the call returns empty lists and the empty string as
\* context_summary; the sentence is the summary only of a call that
\* queried the graph and found neither an entity nor a thought.
C3_BlankInputGivesEmptySummary ==
    /\ (ContextCalled /\ BlankInput) =>
           /\ context.status = "returned"
           /\ context.value.related_entities = <<>>
           /\ context.value.related_thoughts = <<>>
           /\ context.value.context_summary = <<>>
    /\ (ContextCalled /\ context.status = "returned"
        /\ context.value.context_summary = Str_NoRelevantContext) =>
           /\ ctx_trace = <<"session", "entity_context", "session_context",
                            "similar_sessions", "close">>
           /\ context.value.related_entities = <<>>
           /\ context.value.related_thoughts = <<>>

\* a whitespace-only input against a store that answers and holds an entity
C3_Witness ==
    /\ ContextCalled
    /\ user_input = Text_Spaces
    /\ ~graph.session_raises
    /\ graph.failing_query = 0
    /\ graph.entity_context # <<>>
    /\ context.status = "returned"
    /\ context.value.context_summary = <<>>

-----------------------------------------------------------------------------
(* Further claims about extract_entities_with_confidence.                  *)

\* the name, lower-cased, equals a stop word
IsStopWord(name) == \E w \in stop_words : SameIgnoringCase(name, w)

\* the names of all the category lists of a result
CategoryNames(r) ==
    UNION {{l[i].name : i \in 1..Len(l)} : l \in CategoryListsOf(r)}

\* the candidates among the matches whose text is a stop word
StopWordCandidates ==
    {i \in 1..Len(finditer) :
        LET m == finditer[i]
        IN  /\ m.kind \in Categories
            /\ IsStopWord(Strip(Slice(text, m.start, m.stop)))}

\* C11: no entity whose name, lower-cased, equals a stop word appears in
\* any category list of any extraction result.
C11_NoStopWordInCategoryLists ==
    result.status = "returned" =>
        \A name \in CategoryNames(result.value) : ~IsStopWord(name)

\* C11 witness: a pattern matched a stop word and another word; the other
\* word was kept.
C11_Witness ==
    /\ result.status = "returned"
    /\ StopWordCandidates # {}
    /\ CategoryNames(result.value) # {}

-----------------------------------------------------------------------------
(* Further claims about merge_similar_entities.                            *)

\* what the exact and the substring tier give on their own
TiersAlone(existing, new) ==
    LET exact == {i \in 1..Len(existing) : SameIgnoringCase(existing[i], new)}
        related == MatchingIndexes(existing, new)
        First(S) == CHOOSE i \in S : \A j \in S : i <= j
    IN  IF existing = <<>> \/ new = <<>> THEN None
        ELSE IF exact # {} THEN existing[First(exact)]
        ELSE IF related # {}
        THEN (IF Len(new) > Len(existing[First(related)])
              THEN new ELSE existing[First(related)])
        ELSE None

\* C12: when the embedding backend is absent, or its encode or similarity
\* call throws, merge_similar_entities does not raise and returns exactly
\* what the exact and substring tiers alone give (None when neither
\* matches).
C12_SemanticFailureFallsBack ==
    (MergeCalled /\ (SemanticTierAbsent \/ embedding.throws)) =>
        merged_name = TiersAlone(merge_args.existing, merge_args.new)

\* C12 witness: the backend is loaded and holds the two names similar, its
\* call throws, no other tier matches, and the call returned None.
C12_Witness ==
    /\ MergeCalled
    /\ ~SemanticTierAbsent
    /\ embedding.throws
    /\ merge_args.existing # <<>>
    /\ {merge_args.new, merge_args.existing[1]} \in embedding.similar
    /\ MatchingIndexes(merge_args.existing, merge_args.new) = {}
    /\ merged_name = None

-----------------------------------------------------------------------------
(* SpecRepeat: extract_entities_with_confidence called twice on one text,  *)
(* with other calls of the extractor before, between and after.            *)

InitRepeat ==
    /\ \E c \in ExtractConfigs :
          /\ ADVANCED_NLP_AVAILABLE = c.available
          /\ semantic_model = c.model
          /\ embedding = c.embedding
    /\ text \in ExtractTexts
    /\ finditer \in SeqsUpTo(MatchChoices(text), MaxInputMatches)
    /\ clock = 0
    /\ result = Pending
    /\ previous_result = Pending
    /\ existing_entities = <<Name_AI>>
    /\ new_entity = Name_AILab
    /\ merge_args = NotCalled
    /\ merged_name = NotCalled
    /\ entity_list = <<[name |-> Name_AI, confidence |-> 7],
                       [name |-> Name_AILab, confidence |-> 9]>>
    /\ cleaned = Pending
    /\ ScoreIdle /\ ContextIdle /\ ServicesIdle

\* the second call on the same text: the earlier result is kept aside
RepeatExtract ==
    /\ result.status # "NotCalled"
    /\ previous_result.status = "NotCalled"
    /\ previous_result' = result
    /\ result' = extract_entities_with_confidence(text, finditer, clock)
    /\ clock' = clock + 1
    /\ UNCHANGED <<text, finditer>>
    /\ UNCHANGED <<extractorVars, mergeVars, dedupVars, scoreVars, contextVars>>
    /\ UNCHANGED serviceVars

\* between the two calls, a call on another text, whose result is dropped
ExtractOtherText ==
    /\ result.status # "NotCalled"
    /\ previous_result.status = "NotCalled"
    /\ clock = 1
    /\ \E other \in ExtractTexts \ {text} :
          extract_entities_with_confidence(
              other, <<>>, clock).status = "returned"
    /\ clock' = clock + 1
    /\ UNCHANGED <<text, finditer, result, previous_result>>
    /\ UNCHANGED <<extractorVars, mergeVars, dedupVars, scoreVars, contextVars>>
    /\ UNCHANGED serviceVars

NextRepeat ==
    \/ CallExtract
    \/ RepeatExtract
    \/ ExtractOtherText
    \/ CallMerge
    \/ CallCleanAndDeduplicate

SpecRepeat == InitRepeat /\ [][NextRepeat]_vars

ExtractedTwice == previous_result.status # "NotCalled"

ResultItems(r) ==
    {<<c, i>> : c \in Categories, i \in 1..MaxMatches + 1}
    \cup {<<"definitions", k>> : k \in DOMAIN r.entities.definitions}

ItemConfidence(r, item) ==
    IF item[1] = "definitions" THEN r.entities.definitions[item[2]].confidence
    ELSE IF item[2] <= Len(r.entities[item[1]])
    THEN r.entities[item[1]][item[2]].confidence
    ELSE 0

ItemPresent(r, item) ==
    item[1] = "definitions" \/ item[2] <= Len(r.entities[item[1]])

RECURSIVE SumOfItems(_, _)
SumOfItems(r, items) ==
    IF items = {} THEN 0
    ELSE LET item == CHOOSE x \in items : TRUE
         IN  ItemConfidence(r, item) + SumOfItems(r, items \ {item})

\* C14: in every extraction result total_entities is the sum of the
\* lengths of all category lists plus the number of definitions, and
\* overall_confidence is the mean of the confidences of exactly those
\* entities and definitions (0 when there are none).
C14_TotalsAgreeWithEntities ==
    result.status = "returned" =>
        LET r == result.value
            present == {item \in ResultItems(r) : ItemPresent(r, item)}
        IN  /\ r.total_entities = Cardinality(present)
            /\ r.overall_confidence.den > 0
            /\ r.overall_confidence.num * Cardinality(present)
                   = SumOfItems(r, present) * r.overall_confidence.den
            /\ present = {} => r.overall_confidence.num = 0

\* C14 witness: a result that holds an entity of a category and a
\* definition
C14_Witness ==
    /\ result.status = "returned"
    /\ result.value.total_entities = 2
    /\ Cardinality(DOMAIN result.value.entities.definitions) = 1
    /\ Len(result.value.entities.tools) = 1

-----------------------------------------------------------------------------
(* Claims about the ranking of thoughts.                                   *)

\* the call queried the graph and returned what it found
ContextFormatted ==
    /\ context.status = "returned"
    /\ HasKey(context.value, "extracted_entities")

\* the entity occurs in the content, but only in another letter case
OnlyInOtherCase(content, entity) ==
    ContainsIgnoringCase(content, entity) /\ ~Contains(content, entity)

\* C15: for any mentioned entities (a single one included), a thought whose
\* content holds an exact-case occurrence of a mentioned entity is ranked
\* before a thought that holds that entity only in a different letter
\* case, whatever the timestamps of the two thoughts.
C15_ExactCaseRanksFirst ==
    ContextFormatted =>
        LET thoughts == context.value.related_thoughts
            mentioned == context.value.extracted_entities
        IN  \A i, j \in 1..Len(thoughts) : \A k \in 1..Len(mentioned) :
                (/\ i < j
                 /\ Contains(thoughts[j].content, mentioned[k]))
                => ~OnlyInOtherCase(thoughts[i].content, mentioned[k])

\* the thought candidates of the call: what lines 179-213 collect from the
\* records the queries returned
ThoughtCandidates ==
    LET mentioned == context.value.extracted_entities
    IN  AllEntityThoughts(FirstN(graph.entity_context, max_context_entities),
                          mentioned)
        \o SessionThoughts(FirstN(graph.session_context, context_window),
                           mentioned)

\* the key (relevance_score, timestamp) of x is above that of y
KeyAbove(x, y) ==
    LET a == x.relevance_score
        b == y.relevance_score
    IN  \/ a.num * b.den > b.num * a.den
        \/ /\ a.num * b.den = b.num * a.den
           /\ x.timestamp.kind = "datetime"
           /\ y.timestamp.kind = "datetime"
           /\ x.timestamp.at > y.timestamp.at

Occurrences(seq, v) == Cardinality({i \in 1..Len(seq) : seq[i] = v})

\* C16: in every context _format_and_rank_context returns, related_thoughts
\* has at most max_related_thoughts (5) entries, they are the top entries
\* of all the thought candidates in the order of (relevance_score,
\* timestamp) descending, and related_entities has at most
\* max_context_entities (10) entries.
C16_TopThoughtsInOrder ==
    ContextFormatted =>
        LET kept == context.value.related_thoughts
            all == ThoughtCandidates
        IN  /\ Len(kept) <= 5
            /\ Len(kept) = Min(Len(all), 5)
            /\ Len(context.value.related_entities) <= 10
            /\ \A i, j \in 1..Len(kept) :
                   i < j => ~KeyAbove(kept[j], kept[i])
            /\ \A i \in 1..Len(kept) :
                   Occurrences(kept, kept[i]) <= Occurrences(all, kept[i])
            /\ \A n \in 1..Len(all) :
                   Occurrences(kept, all[n]) < Occurrences(all, all[n])
                   => \A i \in 1..Len(kept) : ~KeyAbove(all[n], kept[i])

\* C16 witness: of seven candidates with three different scores the five
\* best were kept.
C16_Witness ==
    /\ ContextFormatted
    /\ Len(ThoughtCandidates) = 7
    /\ Len(context.value.related_thoughts) = 5
    /\ Len(context.value.extracted_entities) = 2
    /\ context.value.related_thoughts[1].relevance_score
           # context.value.related_thoughts[5].relevance_score

\* a call whose store holds more entities than the entity query returns
C16_EntityCapWitness ==
    /\ ContextFormatted
    /\ Len(graph.entity_context) > 10
    /\ Len(context.value.related_entities) = 10

-----------------------------------------------------------------------------
(* Claims about _extract_entities_from_input.                              *)

\* what _extract_entities_from_input returned to the call
Mentioned == _extract_entities_from_input(user_input, result)

\* C17: the mentioned entities include every name the extractor places in
\* a category list for the same input, but for the dedupe ignoring case,
\* the drop of names of two characters or fewer, and the cap.
C17_ExtractorNamesIncluded ==
    (ContextCalled /\ result.status = "returned"
     /\ Mentioned.status = "returned") =>
        \A name \in CategoryNames(result.value) :
            Len(Strip(name)) > 2 =>
                \/ Len(Mentioned.value) = max_context_entities
                \/ \E i \in 1..Len(Mentioned.value) :
                      SameIgnoringCase(Mentioned.value[i], Strip(name))

\* the index of the first candidate that is the name, ignoring case and
\* the whitespace around it (0 when there is none)
FirstOccurrence(candidates, name) ==
    LET same == {k \in 1..Len(candidates) :
                    SameIgnoringCase(Strip(candidates[k]), name)}
    IN  IF same = {} THEN 0 ELSE CHOOSE k \in same : \A n \in same : k <= n

\* C18: the list _extract_entities_from_input returns has at most
\* max_context_entities (10) entries, its entries are pairwise distinct
\* ignoring case, each is longer than 2 characters, and each keeps the
\* casing and the position of its first occurrence among the candidates.
C18_CleanedEntities ==
    (ContextCalled /\ Mentioned.status = "returned") =>
        LET out == Mentioned.value
            candidates == Candidates(user_input, result)
        IN  /\ Len(out) <= 10
            /\ \A i, j \in 1..Len(out) :
                   i # j => ~SameIgnoringCase(out[i], out[j])
            /\ \A i \in 1..Len(out) :
                   /\ Len(out[i]) > 2
                   /\ FirstOccurrence(candidates, out[i]) # 0
                   /\ Strip(candidates[FirstOccurrence(candidates, out[i])])
                          = out[i]
            /\ \A i, j \in 1..Len(out) :
                   i < j => FirstOccurrence(candidates, out[i])
                                < FirstOccurrence(candidates, out[j])

\* C18 witness: eleven different candidates, of which ten are returned
C18_Witness ==
    /\ ContextCalled
    /\ Mentioned.status = "returned"
    /\ Len(Candidates(user_input, result)) = 11
    /\ Len(Mentioned.value) = 10

\* a candidate that repeats an earlier one in another case is dropped
C18_DedupeWitness ==
    /\ ContextCalled
    /\ user_input = Text_QuotedGitGit
    /\ Candidates(user_input, result) = <<Name_Git, Lower(Name_Git)>>
    /\ Mentioned.value = <<Name_Git>>

-----------------------------------------------------------------------------
(* Claims about the contexts get_conversation_context returns.             *)

ConversationContextFields ==
    {"related_entities", "related_thoughts", "similar_sessions",
     "context_summary", "extracted_entities"}

\* C19: every value get_conversation_context returns, on the no-entity
\* path, the success path and the failure path alike, has all five
\* ConversationContext fields.
C19_AllFiveFields ==
    context.status = "returned" =>
        ConversationContextFields \subseteq DOMAIN context.value

\* how often the operation occurs in the trace of the call
TimesIssued(op) == Cardinality({i \in 1..Len(ctx_trace) : ctx_trace[i] = op})

\* the positions of the trace at which a query was run
QueryPositions ==
    {i \in 1..Len(ctx_trace) :
        ctx_trace[i] \in {"entity_context", "session_context",
                          "similar_sessions"}}

\* C20: within one call no graph operation is retried: at most one session
\* is opened, each of the three queries is run at most once, and after one
\* of them raised no further query is issued.
C20_NoRetry ==
    ContextCalled =>
        /\ TimesIssued("session") <= 1
        /\ TimesIssued("entity_context") <= 1
        /\ TimesIssued("session_context") <= 1
        /\ TimesIssued("similar_sessions") <= 1
        /\ graph.session_raises => QueryPositions = {}
        /\ (graph.failing_query = 1 /\ QueryPositions # {}) =>
               /\ TimesIssued("session_context") = 0
               /\ TimesIssued("similar_sessions") = 0
        /\ (graph.failing_query = 2 /\ QueryPositions # {}) =>
               TimesIssued("similar_sessions") = 0

\* C20 witness: the first query raised; nothing was run after it and the
\* session was closed
C20_Witness ==
    /\ ContextCalled
    /\ graph.failing_query = 1
    /\ ctx_trace = <<"session", "entity_context", "close">>
    /\ context.value.context_summary = Str_ContextExtractionFailed

-----------------------------------------------------------------------------
\* what the call of get_conversation_context computed, whatever was done
\* with the context afterwards
ContextAsReturned ==
    get_conversation_context(user_input, result, graph).context.value

FieldLength(c, key) == IF key \in DOMAIN c THEN Len(c[key]) ELSE 0

\* C22: the counts of get_context_metadata are the lengths of the context's
\* related_entities, related_thoughts and similar_sessions, 0 for a field
\* the context does not have; used_context is true exactly when
\* related_entities or related_thoughts is not empty; the context is as it
\* was before the call.
C22_MetadataAgreesWithContext ==
    metadata.status = "returned" =>
        LET c == ContextAsReturned
            m == metadata.value
        IN  /\ m.context_entities_count = FieldLength(c, "related_entities")
            /\ m.context_thoughts_count = FieldLength(c, "related_thoughts")
            /\ m.similar_sessions_count = FieldLength(c, "similar_sessions")
            /\ m.used_context <=>
                   (FieldLength(c, "related_entities") > 0
                    \/ FieldLength(c, "related_thoughts") > 0)
            /\ context.value = c

\* metadata of a context with entities and no thoughts
C22_Witness ==
    /\ metadata.status = "returned"
    /\ metadata.value.context_entities_count > 0
    /\ metadata.value.context_thoughts_count = 0
    /\ metadata.value.used_context

\* metadata of a context that has no similar_sessions field
C22_MissingFieldWitness ==
    /\ metadata.status = "returned"
    /\ "similar_sessions" \notin DOMAIN context.value
    /\ metadata.value.similar_sessions_count = 0
    /\ ~metadata.value.used_context

-----------------------------------------------------------------------------
(* SpecRelevance: calls of _calculate_thought_relevance.                   *)

Name_git == <<"g","i","t">>
Name_Hub == <<"H","u","b">>

\* a content that is None, empty, or a sentence; entities that occur in it
\* with their own case, in another case, or not at all
RelevanceContents ==
    {None, <<>>, Content_GitExact, Content_GitLower, Content_GitAPI,
     Content_Unrelated}

RelevanceNames == {Name_Git, Name_git, Name_API, Name_Hub}

\* the longest list of mentioned entities
MaxMentioned == 3

InitRelevance ==
    /\ InitExtractor
    /\ relevance_args \in [thought_content : RelevanceContents,
                           mentioned_entities :
                               SeqsUpTo(RelevanceNames, MaxMentioned)]
    /\ relevance_result = Pending
    /\ MergeIdle /\ DedupIdle /\ ScoreIdle /\ ExtractIdle /\ ContextIdle
    /\ ThreadsIdle /\ CollabIdle /\ AIIdle

CallCalculateThoughtRelevance ==
    /\ relevance_result.status = "NotCalled"
    /\ relevance_result' =
           Returned(_calculate_thought_relevance(
                        relevance_args.thought_content,
                        relevance_args.mentioned_entities))
    /\ UNCHANGED relevance_args
    /\ UNCHANGED <<extractorVars, mergeVars, dedupVars, scoreVars,
                   extractVars, contextVars>>
    /\ UNCHANGED <<threadVars, collabVars, aiVars>>

NextRelevance == CallCalculateThoughtRelevance

SpecRelevance == InitRelevance /\ [][NextRelevance]_vars

\* the entities of the list, by position, that occur in the content
OccurringIgnoringCase(content, entities) ==
    {i \in 1..Len(entities) : ContainsIgnoringCase(content, entities[i])}

OccurringExactly(content, entities) ==
    {i \in 1..Len(entities) :
        \E k \in 0..(Len(content) - Len(entities[i])) :
            SubSeq(content, k + 1, k + Len(entities[i])) = entities[i]}

\* C23: for a content and a non-empty list of n mentioned entities the
\* relevance is min(1, m/n + 0.2*e), m counting the entities that occur in
\* the content whatever their case and e those that occur with their exact
\* case; it lies in [0, 1]; it is 0 for a content that is empty or None and
\* for an empty list.  (r = num/den; every comparison is multiplied out.)
C23_RelevanceIsClampedSum ==
    relevance_result.status = "returned" =>
        LET content == relevance_args.thought_content
            entities == relevance_args.mentioned_entities
            r == relevance_result.value
        IN  /\ r.den > 0 /\ 0 <= r.num /\ r.num <= r.den
            /\ IF content \in {None, <<>>} \/ entities = <<>>
               THEN r.num = 0
               ELSE LET n == Len(entities)
                        m == Cardinality(OccurringIgnoringCase(content, entities))
                        e == Cardinality(OccurringExactly(content, entities))
                    IN  \* m/n + e/5 = (5m + ne) / 5n
                        IF 5 * m + n * e >= 5 * n
                        THEN r.num = r.den
                        ELSE r.num * 5 * n = (5 * m + n * e) * r.den

\* a sum above 1 that the clamp cut back, and a sum below 1 with a boost
C23_Witness ==
    /\ relevance_result.status = "returned"
    /\ relevance_args.thought_content = Content_GitAPI
    /\ relevance_args.mentioned_entities = <<Name_Git, Name_API>>
    /\ relevance_result.value.num = relevance_result.value.den

C23_BoostWitness ==
    /\ relevance_result.status = "returned"
    /\ relevance_args.thought_content = Content_GitExact
    /\ relevance_args.mentioned_entities = <<Name_Git, Name_Hub, Name_API>>
    /\ relevance_result.value = [num |-> 8, den |-> 15]

-----------------------------------------------------------------------------
\* the definition candidates among the matches: term and definition text
DefinitionCandidates ==
    {[term |-> Strip(Slice(text, finditer[i].start, finditer[i].stop)),
      definition |->
          Strip(Slice(text, finditer[i].def_start, finditer[i].def_stop))] :
        i \in {k \in 1..Len(finditer) : finditer[k].kind = "definitions"}}

\* a candidate that is not noise and whose confidence clears the threshold
Acceptable(c) ==
    /\ ~_is_noise(c.term)
    /\ _calculate_definition_confidence(c.term, c.definition)
           >= confidence_threshold

DefinitionCalled ==
    /\ result.status = "returned"
    /\ text # None /\ Strip(text) # <<>>

\* C24 as stated: a candidate is dropped for its length exactly when the
\* term is shorter than 3 characters or the definition shorter than 10, so
\* an acceptable candidate with a term of 3 or more and a definition of 10
\* or more characters is in the result.
C24_TenCharacterDefinitionKept ==
    DefinitionCalled =>
        \A c \in DefinitionCandidates :
            (Len(c.term) >= 3 /\ Len(c.definition) >= 10 /\ Acceptable(c))
                => c.term \in DOMAIN result.value.entities.definitions

\* C24 as the code has it: a candidate is dropped for its length exactly
\* when the term is shorter than 3 characters or the definition is 10
\* characters or shorter.  Every definition of the result has a term of 3
\* or more and a text of 11 or more characters, and every acceptable
\* candidate of those lengths is in the result.
C24_ElevenCharacterDefinitionKept ==
    DefinitionCalled =>
        LET definitions == result.value.entities.definitions
        IN  /\ \A term \in DOMAIN definitions :
                  /\ Len(term) >= 3
                  /\ Len(definitions[term].definition) >= 11
            /\ \A c \in DefinitionCandidates :
                  (Len(c.term) >= 3 /\ Len(c.definition) >= 11
                   /\ Acceptable(c))
                      => c.term \in DOMAIN definitions

\* "Git is programmed": the one candidate has a term of three and a
\* definition of exactly ten characters, is acceptable, and is dropped
C24_Witness ==
    /\ DefinitionCalled
    /\ text = Text_GitIsProgrammed
    /\ DefinitionCandidates =
           {[term |-> Name_Git,
             definition |-> <<"p","r","o","g","r","a","m","m","e","d">>]}
    /\ \A c \in DefinitionCandidates : Acceptable(c)
    /\ DOMAIN result.value.entities.definitions = {}

\* "Git is programming": eleven characters, kept
C24_KeptWitness ==
    /\ DefinitionCalled
    /\ text = Text_GitIsProgramming
    /\ Name_Git \in DOMAIN result.value.entities.definitions
    /\ Len(result.value.entities.definitions[Name_Git].definition) = 11

\* "Go is programming": a term of two characters, dropped
C24_ShortTermWitness ==
    /\ DefinitionCalled
    /\ text = Text_GoIsProgramming
    /\ \E c \in DefinitionCandidates :
          Len(c.term) = 2 /\ Len(c.definition) = 11 /\ Acceptable(c)
    /\ DOMAIN result.value.entities.definitions = {}

-----------------------------------------------------------------------------
\* the substrings of the text enclosed in a pair of single quotes
SingleQuotedTerms(t) ==
    IF t = None THEN {}
    ELSE {SubSeq(t, p[1] + 1, p[2] - 1) :
             p \in {q \in (1..Len(t)) \X (1..Len(t)) :
                       /\ q[1] + 1 < q[2]
                       /\ t[q[1]] = "'" /\ t[q[2]] = "'"
                       /\ \A k \in (q[1] + 1)..(q[2] - 1) : t[k] # "'"}}

\* C25: every substring of user_input enclosed in single quotes is among
\* the candidates of _extract_entities_from_input, as a substring in double
\* quotes is, and so is in the result but for the dedupe ignoring case, the
\* drop of names of two characters or fewer, and the cap.
C25_SingleQuotedAmongCandidates ==
    (ContextCalled /\ Mentioned.status = "returned") =>
        \A term \in SingleQuotedTerms(user_input) :
            /\ \E i \in 1..Len(Candidates(user_input, result)) :
                  Candidates(user_input, result)[i] = term
            /\ Len(Strip(term)) > 2 =>
                  \/ Len(Mentioned.value) = max_context_entities
                  \/ \E i \in 1..Len(Mentioned.value) :
                        SameIgnoringCase(Mentioned.value[i], Strip(term))

-----------------------------------------------------------------------------
\* the summary has the part "<n><phrase>", at its start or after ". "
States(summary, n, phrase) ==
    Contains(<<" ">> \o summary, <<" ">> \o IntToStr(n) \o phrase)

\* the counts a summary can state for what one call collects
StatedCounts == 0..(2 * max_context_entities + context_window)

\* C26: the number of related insights the context_summary states is the
\* number of entries of the returned related_thoughts, and the number of
\* related conversations it states is the number of entries of the returned
\* similar_sessions.
C26_SummaryCountsAreListLengths ==
    ContextFormatted =>
        LET c == context.value
        IN  \A n \in StatedCounts :
                /\ States(c.context_summary, n, Str_RelatedInsightsFound)
                       => n = Len(c.related_thoughts)
                /\ States(c.context_summary, n, Str_RelatedConversations)
                       => n = Len(c.similar_sessions)

\* C26 as the code has it: the number of related insights the summary
\* states is the number of thoughts collected before the cut to
\* max_related_thoughts (never fewer than the entries of the returned
\* related_thoughts, and as many when no more than 5 were collected); the
\* number of related conversations it states is the number of entries of
\* the returned similar_sessions; a count is stated whenever it is not 0.
C26_SummaryCountsWhatWasCollected ==
    ContextFormatted =>
        LET c == context.value
            collected == Len(ThoughtCandidates)
        IN  /\ \A n \in StatedCounts :
                  /\ States(c.context_summary, n, Str_RelatedInsightsFound)
                         => n = collected
                  /\ States(c.context_summary, n, Str_RelatedConversations)
                         => n = Len(c.similar_sessions)
            /\ collected > 0 =>
                  States(c.context_summary, collected, Str_RelatedInsightsFound)
            /\ Len(c.similar_sessions) > 0 /\ c.related_entities # <<>> =>
                  States(c.context_summary, Len(c.similar_sessions),
                         Str_RelatedConversations)
            /\ Len(c.related_thoughts) <= collected
            /\ collected <= max_related_thoughts =>
                  Len(c.related_thoughts) = collected

\* seven thoughts collected and stated, five returned, one conversation
C26_Witness ==
    /\ ContextFormatted
    /\ Len(ThoughtCandidates) = 7
    /\ Len(context.value.related_thoughts) = max_related_thoughts
    /\ States(context.value.context_summary, 7, Str_RelatedInsightsFound)
    /\ States(context.value.context_summary, 1, Str_RelatedConversations)

-----------------------------------------------------------------------------
(* SpecThreads: extract_entities_with_confidence and                       *)
(* get_conversation_context running on two threads at once, on the one     *)
(* extractor (enhanced_entity_extractor.py line 458) and the one context   *)
(* service.  A call is cut into the steps between which another thread may *)
(* run; what a call keeps between its steps are Python locals, one set per *)
(* call; the instance fields are read, never assigned, after __init__.     *)

Threads == {"T1", "T2"}

\* what re.finditer yields for "Git is programming": the tool Git and the
\* definition Git -> programming
Matches_GitIsProgramming ==
    <<[kind |-> "tools", start |-> 0, stop |-> 3],
      [kind |-> "definitions", start |-> 0, stop |-> 3,
       def_start |-> 7, def_stop |-> 18]>>

\* the calls a thread may make
ThreadCalls ==
    {[call |-> "extract", input |-> Text_GitIsProgramming,
      matches |-> Matches_GitIsProgramming],
     [call |-> "extract", input |-> Text_Spaces, matches |-> <<>>],
     [call |-> "extract", input |-> Name_Git,
      matches |-> <<[kind |-> "tools", start |-> 0, stop |-> 3]>>],
     [call |-> "context", input |-> Text_GitAPI,
      matches |-> <<[kind |-> "tools", start |-> 0, stop |-> 3]>>],
     [call |-> "context", input |-> Text_it, matches |-> <<>>]}

NoContextData ==
    [entity_context |-> <<>>, session_context |-> <<>>,
     similar_sessions |-> <<>>]

\* a call that has not taken its first step
ThreadStart(c) ==
    [call |-> c.call, input |-> c.input, matches |-> c.matches,
     pc |-> "guard", category |-> 1, entities |-> NoEntities,
     extracted |-> Pending, mentioned |-> <<>>, query |-> 1,
     context_data |-> NoContextData, trace |-> <<>>, result |-> Pending,
     overlapped |-> FALSE]

\* entities kept in a field of the shared extractor instead of a local
BindEntitiesOnInstance(ths, t, value) ==
    [u \in DOMAIN ths |-> [ths[u] EXCEPT !.entities = value]]

\* lines 110-128: entities = ... binds a local of the call running on t
BindEntities(ths, t, value) == [ths EXCEPT ![t].entities = value]

MidCall(th) == th.pc \notin {"guard", "done"}

\* thread t takes a step that leaves it as th; the step overlaps another
\* call when some other thread is between its first and its last step
Step(ths, t, th) ==
    [ths EXCEPT ![t] =
        [th EXCEPT !.overlapped =
            @ \/ \E u \in DOMAIN ths \ {t} : MidCall(ths[u])]]

\* the extraction is over: extract_entities_with_confidence returns it to
\* its caller, which is the thread or line 56 of the context service
ExtractionDone(th, r) ==
    IF th.call = "extract"
    THEN [th EXCEPT !.result = r, !.pc = "done"]
    ELSE [th EXCEPT !.extracted = r, !.pc = "mentioned"]

InitThreads ==
    /\ \E c \in ExtractConfigs :
          /\ ADVANCED_NLP_AVAILABLE = c.available
          /\ semantic_model = c.model
          /\ embedding = c.embedding
    /\ threads \in [Threads -> {ThreadStart(c) : c \in ThreadCalls}]
    /\ graph \in {g \in GraphStores :
                     g.entity_context # <<>> /\ g.similar_sessions # <<>>}
    /\ clock = 0
    /\ text = None /\ finditer = <<>>
    /\ result = Pending /\ previous_result = Pending
    /\ user_input = <<>> /\ ctx_trace = <<>>
    /\ context = Pending /\ metadata = Pending
    /\ MergeIdle /\ DedupIdle /\ ScoreIdle
    /\ RelevanceIdle /\ CollabIdle /\ AIIdle

\* lines 105-117: the guard and the empty dictionary
ExtractGuard(t) ==
    LET th == threads[t]
    IN  /\ th.pc = "guard"
        /\ IF IsBlank(th.input)
           THEN /\ threads' = Step(threads, t,
                        ExtractionDone(th, Returned(_empty_result(clock))))
                /\ clock' = clock + 1
           ELSE /\ threads' = Step(BindEntities(threads, t, NoEntities), t,
                        [BindEntities(threads, t, NoEntities)[t]
                            EXCEPT !.pc = "categories"])
                /\ clock' = clock

\* lines 120-122: one turn of the loop over self.patterns
ExtractCategory(t) ==
    LET th == threads[t]
        category == CategoryOrder[th.category]
        bound == BindEntities(threads, t,
                     [th.entities EXCEPT ![category] =
                         _extract_category_entities(
                             th.input, category, th.matches)])
    IN  /\ th.pc = "categories"
        /\ threads' = Step(bound, t,
               IF th.category = Len(CategoryOrder)
               THEN [bound[t] EXCEPT !.pc = "definitions"]
               ELSE [bound[t] EXCEPT !.category = @ + 1])
        /\ clock' = clock

\* line 125
ExtractDefinitions(t) ==
    LET th == threads[t]
        bound == BindEntities(threads, t,
                     [th.entities EXCEPT !.definitions =
                         _extract_definitions(th.input, th.matches)])
    IN  /\ th.pc = "definitions"
        /\ threads' = Step(bound, t, [bound[t] EXCEPT !.pc = "clean"])
        /\ clock' = clock

\* line 128
ExtractClean(t) ==
    LET th == threads[t]
        bound == BindEntities(threads, t, _clean_and_deduplicate(th.entities))
    IN  /\ th.pc = "clean"
        /\ threads' = Step(bound, t, [bound[t] EXCEPT !.pc = "result"])
        /\ clock' = clock

\* lines 131-141
ExtractResult(t) ==
    LET th == threads[t]
    IN  /\ th.pc = "result"
        /\ threads' = Step(threads, t,
               ExtractionDone(th, Returned(
                   [entities |-> th.entities,
                    overall_confidence |->
                        _calculate_overall_confidence(th.entities),
                    total_entities |-> _count_total_entities(th.entities),
                    extraction_timestamp |-> clock])))
        /\ clock' = clock + 1

\* context_service.py lines 57-83 and 33-34, after the extractor returned
ContextMentioned(t) ==
    LET th == threads[t]
        mentioned_entities ==
            _extract_entities_from_input(th.input, th.extracted)
    IN  /\ th.pc = "mentioned"
        /\ threads' = Step(threads, t,
               IF mentioned_entities.status = "raised"
               THEN [th EXCEPT !.result = OnException(mentioned_entities.error),
                               !.pc = "done"]
               ELSE IF NoneMentioned(mentioned_entities.value)
               THEN [th EXCEPT !.result = Returned(EmptyContext),
                               !.pc = "done"]
               ELSE [th EXCEPT !.mentioned = mentioned_entities.value,
                               !.pc = "session"])
        /\ clock' = clock

\* line 37: each call opens a session of its own
ContextSession(t) ==
    LET th == threads[t]
    IN  /\ th.pc = "session"
        /\ threads' = Step(threads, t,
               IF graph.session_raises
               THEN [th EXCEPT !.trace = <<"session">>,
                               !.result = OnException("ServiceUnavailable"),
                               !.pc = "done"]
               ELSE [th EXCEPT !.trace = <<"session">>, !.pc = "query"])
        /\ clock' = clock

\* lines 116, 136, 160: one run() of the call's session
ContextQuery(t) ==
    LET th == threads[t]
        name == QueryOrder[th.query]
        issued == Append(th.trace, name)
        rows == _query_context_from_graph(
                    [graph EXCEPT !.failing_query = 0]).value[name]
    IN  /\ th.pc = "query"
        /\ threads' = Step(threads, t,
               IF graph.failing_query = th.query
               THEN [th EXCEPT !.trace = Append(issued, "close"),
                               !.result = OnException("ServiceUnavailable"),
                               !.pc = "done"]
               ELSE IF th.query = Len(QueryOrder)
               THEN [th EXCEPT !.trace = Append(issued, "close"),
                               !.context_data[name] = rows,
                               !.pc = "format"]
               ELSE [th EXCEPT !.trace = issued,
                               !.context_data[name] = rows,
                               !.query = @ + 1])
        /\ clock' = clock

\* lines 41-48
ContextFormat(t) ==
    LET th == threads[t]
        formatted_context ==
            _format_and_rank_context(th.context_data, th.mentioned)
    IN  /\ th.pc = "format"
        /\ threads' = Step(threads, t,
               [th EXCEPT !.result =
                              IF formatted_context.status = "raised"
                              THEN OnException(formatted_context.error)
                              ELSE formatted_context,
                          !.pc = "done"])
        /\ clock' = clock

ThreadFrame ==
    /\ UNCHANGED <<extractorVars, mergeVars, dedupVars, scoreVars>>
    /\ UNCHANGED <<text, finditer, result, previous_result>>
    /\ UNCHANGED <<contextVars, relevanceVars, collabVars, aiVars>>

NextThreads ==
    \E t \in Threads :
        /\ \/ ExtractGuard(t)
           \/ ExtractCategory(t)
           \/ ExtractDefinitions(t)
           \/ ExtractClean(t)
           \/ ExtractResult(t)
           \/ ContextMentioned(t)
           \/ ContextSession(t)
           \/ ContextQuery(t)
           \/ ContextFormat(t)
        /\ ThreadFrame

SpecThreads == InitThreads /\ [][NextThreads]_vars

\* what the call of a thread returns when it runs alone, from its first
\* line to its last, with datetime.now() giving now
RunAlone(th, now) ==
    LET extracted ==
            extract_entities_with_confidence(th.input, th.matches, now)
    IN  IF th.call = "extract"
        THEN [result |-> extracted, trace |-> <<>>]
        ELSE LET call == get_conversation_context(th.input, extracted, graph)
             IN  [result |-> call.context, trace |-> call.trace]

\* the time a finished extraction read, 0 for any other call
TimeRead(th) ==
    IF th.call = "extract" /\ th.result.status = "returned"
    THEN th.result.value.extraction_timestamp
    ELSE 0

\* C21: in every interleaving of two calls on the shared extractor and
\* context service, each call returns, and issues to the graph, what the
\* same call returns and issues when it runs alone (its timestamp being the
\* time it read).
C21_ConcurrentCallsAsSequential ==
    \A t \in DOMAIN threads :
        threads[t].pc = "done" =>
            /\ threads[t].result = RunAlone(threads[t], TimeRead(threads[t])).result
            /\ threads[t].trace = RunAlone(threads[t], TimeRead(threads[t])).trace

\* both calls have returned, each took steps while the other was between
\* its first and last step, and one of them found entities
C21_Witness ==
    /\ threads # <<>>
    /\ \A t \in DOMAIN threads :
          threads[t].pc = "done" /\ threads[t].overlapped
    /\ \E t \in DOMAIN threads :
          /\ threads[t].call = "extract"
          /\ threads[t].result.value.total_entities > 0
    /\ \E t \in DOMAIN threads :
          /\ threads[t].call = "context"
          /\ threads[t].trace # <<>>

-----------------------------------------------------------------------------
(* SpecCollab: the WebSocket handlers of CollaborationService              *)
(* (backend/services/collaboration_service.py).                            *)
(*                                                                         *)
(* The module imports SocketIO, emit, join_room and leave_room (line 12)   *)
(* and never binds the name request, which every handler reads first       *)
(* (request.sid, lines 51, 64, 108, 182, 221, 275, 302). With the module   *)
(* as it stands the read raises NameError and each handler leaves by its   *)
(* except branch. The variable request holds what the name resolves to:    *)
(* "Unbound", as the file leaves it, or "flask.request", the object the    *)
(* handlers are written against, whose sid is the sending socket. Both are *)
(* initial states, and the value never changes afterwards.                 *)

Sockets == {"s1", "s2"}
Users == {"A", "B"}
GraphIds == {"g1", "g2"}
NodeIds == {"n1", "n2"}
\* datetime.utcnow().isoformat() at line 255
LockTimes == {"utcnow()"}
RequestBindings == {"Unbound", "flask.request"}

\* the auth argument of connect: no token, the tokens of the two users, and
\* a token that jwt.decode rejects
AuthTokens == {"None", "tokenA", "tokenB", "expired"}

\* auth_service.py lines 171-200
verify_token(token) ==
    CASE token = "tokenA" -> [valid |-> TRUE, user_id |-> "A"]
      [] token = "tokenB" -> [valid |-> TRUE, user_id |-> "B"]
      [] OTHER -> [valid |-> FALSE, user_id |-> "None"]

\* what the database holds about the users: A is an administrator, B owns
\* g1 and has no access to g2
UserData ==
    [A |-> [role |-> "admin", accessible_graphs |-> {}, owned_graphs |-> {}],
     B |-> [role |-> "user", accessible_graphs |-> {},
            owned_graphs |-> {"g1"}]]

\* auth_service.py lines 202-233, the lists as sets
get_user_permissions(user_id) ==
    LET user_data == UserData[user_id]
    IN  IF user_data.role = "admin"
        THEN [read_access |-> {"*"}, write_access |-> {"*"},
              admin_access |-> {"*"}]
        ELSE [read_access |->
                  user_data.accessible_graphs \cup user_data.owned_graphs,
              write_access |-> user_data.owned_graphs,
              admin_access |-> user_data.owned_graphs]

\* lines 122 and 236: the graph or the wildcard is in the list
Granted(access, graph_id) == graph_id \in access \/ "*" \in access

\* the payload of the events: "None" stands for a key the client left out
EventGraphIds == GraphIds \cup {"None"}
EventNodeIds == NodeIds \cup {"None"}
EventUpdates == { {}, {<<"name", "new">>}, {<<"color", "red">>} }
\* node_update uses its graph_id for the name of the room only
UpdateGraphIds == {"g1"}

\* the nodes the graph database holds when the service is constructed: n1 is
\* stored, n2 is not
StoredNodes == [n \in {"n1"} |-> {<<"name", "old">>}]

\* dictionaries are functions; d[k] = v and del d[k]
Put(d, k, v) == [x \in DOMAIN d \cup {k} |-> IF x = k THEN v ELSE d[x]]
Drop(d, ks) == [x \in DOMAIN d \ ks |-> d[x]]

\* one emit call: the event, the room it goes to (the sender's own socket
\* when emit is given no room) and the payload fields the handlers differ in
ToSender(sid) == <<"sid", sid>>
ToRoom(graph_id) == <<"graph", graph_id>>
Emit(event, room, node_id, user_id, message) ==
    [event |-> event, room |-> room, node_id |-> node_id,
     user_id |-> user_id, message |-> message]
Error(sid, message) == Emit("error", ToSender(sid), "None", "None", message)

\* the event a handler was called for and the socket that sent it
Event(name, sid) == [event |-> name, sid |-> sid]

\* request.sid: the sending socket, or NameError
NameError == request = "Unbound"

CollabFrame ==
    /\ request' = request
    /\ UNCHANGED <<extractorVars, mergeVars, dedupVars, scoreVars,
                   extractVars, contextVars>>
    /\ UNCHANGED <<relevanceVars, threadVars, aiVars>>

\* lines 21-32: the tables are empty after construction; the database holds
\* its nodes
InitCollab ==
    /\ ADVANCED_NLP_AVAILABLE = FALSE
    /\ semantic_model = "None"
    /\ embedding = [throws |-> FALSE, similar |-> {}]
    /\ request \in RequestBindings
    /\ user_sessions = <<>>
    /\ active_sessions = <<>>
    /\ graph_locks = <<>>
    /\ node_store = StoredNodes
    /\ last_event = Pending
    /\ emitted = {}
    /\ MergeIdle /\ DedupIdle /\ ScoreIdle /\ ExtractIdle /\ ContextIdle
    /\ RelevanceIdle /\ ThreadsIdle /\ AIIdle

\* lines 37-58
handle_connect(sid, token) ==
    LET verification == verify_token(token)
        accepted == token # "None" /\ verification.valid /\ ~NameError
    IN  /\ user_sessions' =
               IF accepted
               THEN Put(user_sessions, sid, verification.user_id)
               ELSE user_sessions
        /\ last_event' = Event("connect", sid)
        /\ emitted' = {}
        /\ UNCHANGED <<active_sessions, graph_locks, node_store>>
        /\ CollabFrame

\* lines 76-79, 194-197: the nodes whose lock names the user
LocksOf(locks, user_id) ==
    {n \in DOMAIN locks : locks[n].user_id = user_id}

\* lines 60-102
handle_disconnect(sid) ==
    /\ last_event' = Event("disconnect", sid)
    /\ IF NameError \/ sid \notin DOMAIN user_sessions
       THEN /\ emitted' = {}
            /\ UNCHANGED <<user_sessions, active_sessions, graph_locks>>
       ELSE LET user_id == user_sessions[sid]
                graphs_to_update ==
                    {g \in DOMAIN active_sessions :
                        user_id \in active_sessions[g]}
                locks_to_release == LocksOf(graph_locks, user_id)
            IN  /\ active_sessions' =
                       [g \in DOMAIN active_sessions |->
                           active_sessions[g] \ {user_id}]
                /\ graph_locks' = Drop(graph_locks, locks_to_release)
                /\ user_sessions' = Drop(user_sessions, {sid})
                /\ emitted' =
                       {Emit("node_unlocked", ToRoom(g), n, user_id, "") :
                           n \in locks_to_release, g \in graphs_to_update}
                       \cup
                       {Emit("user_left", ToRoom(g), "None", user_id, "") :
                           g \in graphs_to_update}
    /\ UNCHANGED node_store
    /\ CollabFrame

\* lines 104-176
handle_join_graph(sid, graph_id) ==
    /\ last_event' = Event("join_graph", sid)
    /\ IF NameError
       THEN /\ emitted' = {Error(sid, "Failed to join graph")}
            /\ UNCHANGED active_sessions
       ELSE IF sid \notin DOMAIN user_sessions
       THEN /\ emitted' = {Error(sid, "Not authenticated")}
            /\ UNCHANGED active_sessions
       ELSE IF graph_id = "None"
       THEN /\ emitted' = {Error(sid, "Graph ID required")}
            /\ UNCHANGED active_sessions
       ELSE LET user_id == user_sessions[sid]
                permissions == get_user_permissions(user_id)
            IN  IF ~Granted(permissions.read_access, graph_id)
                THEN /\ emitted' = {Error(sid, "Access denied to this graph")}
                     /\ UNCHANGED active_sessions
                ELSE /\ active_sessions' =
                            Put(active_sessions, graph_id,
                                Get(active_sessions, graph_id, {})
                                    \cup {user_id})
                     /\ emitted' =
                            {Emit("user_joined", ToRoom(graph_id), "None",
                                  user_id, ""),
                             Emit("graph_joined", ToSender(sid), "None",
                                  user_id, "")}
    /\ UNCHANGED <<user_sessions, graph_locks, node_store>>
    /\ CollabFrame

\* lines 178-215
handle_leave_graph(sid, graph_id) ==
    /\ last_event' = Event("leave_graph", sid)
    /\ IF \/ NameError
          \/ sid \notin DOMAIN user_sessions
          \/ graph_id \notin DOMAIN active_sessions
          \/ user_sessions[sid] \notin active_sessions[graph_id]
       THEN /\ emitted' = {}
            /\ UNCHANGED <<active_sessions, graph_locks>>
       ELSE LET user_id == user_sessions[sid]
                locks_to_release == LocksOf(graph_locks, user_id)
            IN  /\ active_sessions' =
                       Put(active_sessions, graph_id,
                           active_sessions[graph_id] \ {user_id})
                /\ graph_locks' = Drop(graph_locks, locks_to_release)
                /\ emitted' =
                       {Emit("node_unlocked", ToRoom(graph_id), n, user_id,
                             "") : n \in locks_to_release}
                       \cup
                       {Emit("user_left", ToRoom(graph_id), "None", user_id,
                             "")}
    /\ UNCHANGED <<user_sessions, node_store>>
    /\ CollabFrame

\* a lock that hands every node to whoever asks
LockedByNobody(locks, node_id, user_id) == FALSE

\* lines 241-243
LockedByAnother(locks, node_id, user_id) ==
    node_id \in DOMAIN locks /\ locks[node_id].user_id # user_id

\* lines 217-269
handle_lock_node(sid, node_id, graph_id, now) ==
    /\ last_event' = Event("lock_node", sid)
    /\ IF NameError
       THEN /\ emitted' = {Error(sid, "Failed to lock node")}
            /\ UNCHANGED graph_locks
       ELSE IF sid \notin DOMAIN user_sessions
       THEN /\ emitted' = {Error(sid, "Not authenticated")}
            /\ UNCHANGED graph_locks
       ELSE IF node_id = "None" \/ graph_id = "None"
       THEN /\ emitted' = {Error(sid, "Node ID and Graph ID required")}
            /\ UNCHANGED graph_locks
       ELSE LET user_id == user_sessions[sid]
                permissions == get_user_permissions(user_id)
            IN  IF ~Granted(permissions.write_access, graph_id)
                THEN /\ emitted' = {Error(sid, "Write access denied")}
                     /\ UNCHANGED graph_locks
                ELSE IF LockedByAnother(graph_locks, node_id, user_id)
                THEN /\ emitted' =
                            {Emit("lock_failed", ToSender(sid), node_id,
                                  graph_locks[node_id].user_id, "")}
                     /\ UNCHANGED graph_locks
                ELSE /\ graph_locks' =
                            Put(graph_locks, node_id,
                                [user_id |-> user_id, graph_id |-> graph_id,
                                 locked_at |-> now])
                     /\ emitted' =
                            {Emit("node_locked", ToRoom(graph_id), node_id,
                                  user_id, "")}
    /\ UNCHANGED <<user_sessions, active_sessions, node_store>>
    /\ CollabFrame

\* lines 271-296
handle_unlock_node(sid, node_id, graph_id) ==
    /\ last_event' = Event("unlock_node", sid)
    /\ IF \/ NameError
          \/ sid \notin DOMAIN user_sessions
          \/ node_id \notin DOMAIN graph_locks
          \/ graph_locks[node_id].user_id # user_sessions[sid]
       THEN /\ emitted' = {}
            /\ UNCHANGED graph_locks
       ELSE /\ graph_locks' = Drop(graph_locks, {node_id})
            /\ emitted' =
                   {Emit("node_unlocked", ToRoom(graph_id), node_id,
                         user_sessions[sid], "")}
    /\ UNCHANGED <<user_sessions, active_sessions, node_store>>
    /\ CollabFrame

\* an update that asks only whether the node is locked at all
NotLocked(locks, node_id, user_id) == node_id \notin DOMAIN locks

\* line 313
NotLockedByUser(locks, node_id, user_id) ==
    node_id \notin DOMAIN locks \/ locks[node_id].user_id # user_id

\* line 324
UpdatableKeys == {"name", "label", "definition", "confidence"}

\* lines 329-338: SET on the matched node; the properties as key/value pairs
SetProperties(properties, assignments) ==
    {p \in properties : \A a \in assignments : a[1] # p[1]} \cup assignments

\* lines 298-353
handle_node_update(sid, node_id, graph_id, updates) ==
    /\ last_event' = Event("node_update", sid)
    /\ IF NameError
       THEN /\ emitted' = {Error(sid, "Failed to update node")}
            /\ UNCHANGED node_store
       ELSE IF sid \notin DOMAIN user_sessions
       THEN /\ emitted' = {Error(sid, "Not authenticated")}
            /\ UNCHANGED node_store
       ELSE IF NotLockedByUser(graph_locks, node_id, user_sessions[sid])
       THEN /\ emitted' = {Error(sid, "Node not locked by current user")}
            /\ UNCHANGED node_store
       ELSE LET user_id == user_sessions[sid]
                set_clauses == {u \in updates : u[1] \in UpdatableKeys}
            IN  IF set_clauses # {} /\ node_id \in DOMAIN node_store
                THEN /\ node_store' =
                            [node_store EXCEPT ![node_id] =
                                SetProperties(@, set_clauses \cup
                                    {<<"last_modified", "datetime()">>,
                                     <<"last_modified_by", user_id>>})]
                     /\ emitted' =
                            {Emit("node_updated", ToRoom(graph_id), node_id,
                                  user_id, "")}
                ELSE /\ emitted' = {}
                     /\ UNCHANGED node_store
    /\ UNCHANGED <<user_sessions, active_sessions, graph_locks>>
    /\ CollabFrame

Connect == \E sid \in Sockets, token \in AuthTokens : handle_connect(sid, token)
Disconnect == \E sid \in Sockets : handle_disconnect(sid)
JoinGraph ==
    \E sid \in Sockets, graph_id \in EventGraphIds :
        handle_join_graph(sid, graph_id)
LeaveGraph ==
    \E sid \in Sockets, graph_id \in EventGraphIds :
        handle_leave_graph(sid, graph_id)
LockNode ==
    \E sid \in Sockets, node_id \in EventNodeIds, graph_id \in EventGraphIds,
       now \in LockTimes :
        handle_lock_node(sid, node_id, graph_id, now)
UnlockNode ==
    \E sid \in Sockets, node_id \in NodeIds, graph_id \in GraphIds :
        handle_unlock_node(sid, node_id, graph_id)
NodeUpdate ==
    \E sid \in Sockets, node_id \in NodeIds, graph_id \in UpdateGraphIds,
       updates \in EventUpdates :
        handle_node_update(sid, node_id, graph_id, updates)

NextCollab ==
    \/ Connect
    \/ Disconnect
    \/ JoinGraph
    \/ LeaveGraph
    \/ LockNode
    \/ UnlockNode
    \/ NodeUpdate

SpecCollab == InitCollab /\ [][NextCollab]_vars

-----------------------------------------------------------------------------
(* C27: a lock and the events of the other users.                          *)

Authenticated(sid) == sid \in DOMAIN user_sessions

\* the socket is authenticated as a user other than the holder of n's lock
AnotherUser(sid, n) ==
    Authenticated(sid) /\ user_sessions[sid] # graph_locks[n].user_id

LockKept(n) == n \in DOMAIN graph_locks' /\ graph_locks'[n] = graph_locks[n]

LockFailed(sid, n) ==
    Emit("lock_failed", ToSender(sid), n, graph_locks[n].user_id, "")

\* the step handles a lock_node, unlock_node, leave_graph or disconnect
\* event of the socket
LockEventOf(sid) ==
    last_event' \in {Event(e, sid) :
        e \in {"lock_node", "unlock_node", "leave_graph", "disconnect"}}

C27_DeniedWitness ==
    /\ last_event # Pending
    /\ last_event.event = "lock_node"
    /\ Authenticated(last_event.sid)
    /\ user_sessions[last_event.sid] = "B"
    /\ "n1" \in DOMAIN graph_locks
    /\ graph_locks["n1"].user_id = "A"
    /\ emitted = {Error(last_event.sid, "Write access denied")}

-----------------------------------------------------------------------------
(* C28: node_update and the lock.                                          *)

\* the socket is authenticated and its user holds the lock of the node
HoldsLock(sid, n) ==
    /\ Authenticated(sid)
    /\ n \in DOMAIN graph_locks
    /\ graph_locks[n].user_id = user_sessions[sid]

Broadcast(n) == \E e \in emitted' : e.event = "node_updated" /\ e.node_id = n

C28_RefusedWitness ==
    /\ last_event # Pending
    /\ last_event.event = "node_update"
    /\ Authenticated(last_event.sid)
    /\ "n1" \in DOMAIN graph_locks
    /\ graph_locks["n1"].user_id # user_sessions[last_event.sid]
    /\ emitted = {Error(last_event.sid, "Node not locked by current user")}
    /\ node_store = StoredNodes

\* an update from a socket that never authenticated has been refused
C28_UnauthenticatedWitness ==
    /\ last_event # Pending
    /\ last_event.event = "node_update"
    /\ ~Authenticated(last_event.sid)
    /\ \E e \in emitted : e.event = "error"

-----------------------------------------------------------------------------
(* C29: what leave_graph releases.                                         *)

\* the user has left the graph with this step
LeftGraph(sid, graph_id) ==
    /\ handle_leave_graph(sid, graph_id)
    /\ Authenticated(sid)
    /\ graph_id \in DOMAIN active_sessions
    /\ user_sessions[sid] \in active_sessions[graph_id]

C29_LeaveReleasesEveryLockOfUser ==
    [][\A sid \in Sockets :
        last_event' = Event("leave_graph", sid) =>
        \A graph_id \in GraphIds :
          LeftGraph(sid, graph_id) =>
              /\ user_sessions[sid] \notin active_sessions'[graph_id]
              /\ \A g \in DOMAIN active_sessions \ {graph_id} :
                    active_sessions'[g] = active_sessions[g]
              /\ \A n \in DOMAIN graph_locks :
                    IF graph_locks[n].user_id = user_sessions[sid]
                    THEN n \notin DOMAIN graph_locks'
                    ELSE LockKept(n)]_vars

\* a user in two graphs, holding a lock taken with each, before leaving one
C29_TwoGraphsWitness ==
    \E u \in Users :
        /\ \A g \in GraphIds :
              g \in DOMAIN active_sessions /\ u \in active_sessions[g]
        /\ \A n \in NodeIds : n \in DOMAIN graph_locks
        /\ graph_locks["n1"] # graph_locks["n2"]
        /\ \A n \in NodeIds : graph_locks[n].user_id = u

\* the user has left g1 and holds no lock, the one taken with g2 included
C29_ReleasedWitness ==
    /\ last_event # Pending
    /\ last_event.event = "leave_graph"
    /\ Authenticated(last_event.sid)
    /\ graph_locks = <<>>
    /\ \E e \in emitted :
          /\ e.event = "node_unlocked"
          /\ e.room = ToRoom("g1")
          /\ e.node_id = "n2"
    /\ "g2" \in DOMAIN active_sessions
    /\ user_sessions[last_event.sid] \in active_sessions["g2"]

-----------------------------------------------------------------------------
(* SpecAI: MultiAIService.get_reasoning_response                           *)
(* (backend/services/multi_ai_service.py).                                 *)

\* lines 25-26
default_provider == "openai"
fallback_chain == <<"openai", "anthropic", "google">>

\* lines 35-96: a provider is entered, with 'available': True, when its API
\* key is set and its client can be built
ProviderNames == {"openai", "anthropic", "google"}

\* the provider argument: left out, empty, one of the three, or a name the
\* service does not know
ProviderArguments == {"None", "", "openai", "anthropic", "google", "mistral"}

\* lines 113-114
ProviderOrDefault(provider) ==
    IF provider \in {"None", ""} THEN default_provider ELSE provider

\* a fallback loop that does not skip the provider tried first
FallbackWithoutSkip(fallback_provider, provider) ==
    fallback_provider \in providers

\* lines 125-126
FallbackCandidate(fallback_provider, provider) ==
    fallback_provider # provider /\ fallback_provider \in providers

\* _call_provider: the provider either answers or raises
CallFails(provider) == provider \in ai_failing

\* lines 124-132: the loop from position i of the chain, after the calls made
RECURSIVE Fallback(_, _, _)
Fallback(i, provider, calls) ==
    IF i > Len(fallback_chain)
    THEN [calls |-> calls, result |-> Raised("All AI providers failed")]
    ELSE LET fallback_provider == fallback_chain[i]
         IN  IF FallbackCandidate(fallback_provider, provider)
             THEN IF CallFails(fallback_provider)
                  THEN Fallback(i + 1, provider,
                                Append(calls, fallback_provider))
                  ELSE [calls |-> Append(calls, fallback_provider),
                        result |-> Returned(fallback_provider)]
             ELSE Fallback(i + 1, provider, calls)

\* lines 102-134
get_reasoning_response(provider_argument) ==
    LET provider == ProviderOrDefault(provider_argument)
    IN  IF provider \in providers
        THEN IF CallFails(provider)
             THEN Fallback(1, provider, <<provider>>)
             ELSE [calls |-> <<provider>>, result |-> Returned(provider)]
        ELSE Fallback(1, provider, <<>>)

InitAI ==
    /\ ADVANCED_NLP_AVAILABLE = FALSE
    /\ semantic_model = "None"
    /\ embedding = [throws |-> FALSE, similar |-> {}]
    /\ providers \in SUBSET ProviderNames
    /\ ai_request \in ProviderArguments
    /\ ai_failing \in SUBSET providers
    /\ ai_calls = <<>>
    /\ ai_result = Pending
    /\ MergeIdle /\ DedupIdle /\ ScoreIdle /\ ExtractIdle /\ ContextIdle
    /\ RelevanceIdle /\ ThreadsIdle /\ CollabIdle

CallGetReasoningResponse ==
    /\ ai_result.status = "NotCalled"
    /\ LET outcome == get_reasoning_response(ai_request)
       IN  /\ ai_calls' = outcome.calls
           /\ ai_result' = outcome.result
    /\ UNCHANGED <<providers, ai_request, ai_failing>>
    /\ UNCHANGED <<extractorVars, mergeVars, dedupVars, scoreVars,
                   extractVars, contextVars>>
    /\ UNCHANGED <<relevanceVars, threadVars, collabVars>>

NextAI == CallGetReasoningResponse

SpecAI == InitAI /\ [][NextAI]_vars

-----------------------------------------------------------------------------
(* C30: the order of the provider calls.                                   *)

\* the provider asked for, or openai when none is given
Requested == IF ai_request \in {"None", ""} THEN "openai" ELSE ai_request

\* the requested provider if available, then the other available providers
\* in the order openai, anthropic, google
CallOrder ==
    (IF Requested \in providers THEN <<Requested>> ELSE <<>>)
    \o SelectSeq(<<"openai", "anthropic", "google">>,
                 LAMBDA p : p \in providers /\ p # Requested)

\* C30: get_reasoning_response calls the requested (or default) provider
\* first if it is available, then the other available providers in the order
\* openai, anthropic, google; no provider is called twice; the first call
\* that succeeds ends the request with that provider's result; the call
\* raises only after every available provider has been called and failed.
C30_FallbackOrder ==
    ai_result.status # "NotCalled" =>
        /\ Len(ai_calls) <= Len(CallOrder)
        /\ ai_calls = SubSeq(CallOrder, 1, Len(ai_calls))
        /\ \A i, j \in 1..Len(ai_calls) : ai_calls[i] = ai_calls[j] => i = j
        /\ \A i \in 1..(Len(ai_calls) - 1) : ai_calls[i] \in ai_failing
        /\ ai_result.status = "returned" =>
              /\ Len(ai_calls) > 0
              /\ ai_result.value = ai_calls[Len(ai_calls)]
              /\ ai_result.value \notin ai_failing
        /\ ai_result.status = "raised" =>
              /\ ai_calls = CallOrder
              /\ providers = {ai_calls[i] : i \in 1..Len(ai_calls)}
              /\ providers \subseteq ai_failing

\* the requested provider failed, openai was skipped as unavailable or
\* failed too, and a later provider of the chain answered
C30_Witness ==
    /\ ai_result.status = "returned"
    /\ Len(ai_calls) >= 2
    /\ ai_calls[1] = Requested
    /\ ai_calls[1] # "openai"

\* every available provider failed and the call raised
C30_RaisedWitness ==
    /\ ai_result.status = "raised"
    /\ Len(ai_calls) = 3

\* an unknown provider name: the chain alone is tried
C30_UnknownWitness ==
    /\ ai_result.status = "returned"
    /\ ai_request = "mistral"
    /\ ai_calls = <<"openai", "anthropic">>

====
